---- MODULE Spec2Model ----
(***************************************************************************)
(* A model of the deval operation runtime:                                 *)
(*   - BaseOperation.execute / BaseOp.run (the two classes are the same    *)
(*     code under two names) with the logger ownership protocol,           *)
(*   - Logger (sub-logger mode) and the SubLoggerManager registry,         *)
(*   - OperationRunner.executeChain / OpStack.run,                         *)
(*   - the two UserInputQueue implementations of the repository.           *)
(*                                                                         *)
(* The specifications share the variables:                                 *)
(*   Spec        operations, loggers and the chain executor                *)
(*   SpecQueue   the scripted input queues                                 *)
(*   SpecLogger  Logger objects: log, finalize, suspend, resumeFrom        *)
(*   SpecSignal  Logger objects and the SubLoggerManager signal handlers   *)
(***************************************************************************)
EXTENDS Integers, Sequences, FiniteSets, TLC

VARIABLES
    \* ---- Logger.enabledLevels (static) --------------------------------
    enabledLevels,
    \* ---- BaseOperation / Logger / SubLoggerManager ---------------------
    operationStack,     \* BaseOperation.operationStack: sequence of frames
    loggers,            \* every Logger instance constructed so far
    activeLoggers,      \* SubLoggerManager.activeLoggers (ids into loggers)
    artifacts,          \* files written by Logger.finalize, in write order
    consoleLines,       \* number of console.log lines emitted by Logger.log
    clock,              \* timestamps of log entries (strictly increasing)
    operationNumber,    \* OperationIdGenerator._operationNumber
    writeFailures,      \* number of writeNewFile rejections so far
    performLogs,        \* number of log calls made by performOperation bodies
    started,            \* [id, depth, own, ancestors, fresh] of every execute() call, in order
    lastSettle,         \* how execute() settled, in the state right after it did
    \* ---- OperationRunner.executeChain ---------------------------------
    chain,              \* status, nesting depth, operations invoked, results
    fatalLog,           \* Logger.error('FATAL: ...') entries and console.error
    \* ---- UserInputQueue -----------------------------------------------
    impl,               \* which UserInputQueue class the run uses
    script,             \* the inputString handed to the constructor
    uiq,                \* UserInputQueue of src/unnamed/part_005
    uiqV1,              \* UserInputQueue of src/src/runtime/UserInputQueue.ts
    lastNext,           \* outcome of the last getNext / getNextSimulatedInput
    lastNextV1,         \* outcome of the last getNext on uiqV1
    ui,                 \* the UI primitive that ran against the queue, and what it did
    main,               \* main(): where it is, and the exit code of the process
    inflight,           \* execute() calls started without await and what they saw
    \* ---- Logger objects used directly, SubLoggerManager.finalizeAll ----
    writes,             \* writeNewFile calls in flight
    handlers,           \* finalizeAll invocations, in arrival order
    exited,             \* Deno.exit has been called
    lastLog,            \* what the last call on a Logger object was and did
    metadata,           \* LoggerSuspensionMetadata returned and not yet resumed
    resumes,            \* [metadata, logger] of every resumeFrom call
    \* ---- formatter.ts ---------------------------------------------------
    formatter           \* millisecondCounters (in insertion order) and the names returned

execVars == <<enabledLevels, operationStack, loggers, activeLoggers, artifacts,
              consoleLines, clock, operationNumber, writeFailures, performLogs,
              started, lastSettle, chain, fatalLog>>
queueVars == <<impl, script, uiq, uiqV1, lastNext, lastNextV1, ui, main, inflight>>
loggerVars == <<writes, handlers, exited, lastLog, metadata, resumes, formatter>>
vars == <<execVars, queueVars, loggerVars>>

(***************************************************************************)
(* Bounds of the model.                                                    *)
(***************************************************************************)
MaxOps == 3             \* operations constructed in one run
MaxDepth == 2           \* nesting depth of execute() calls
MaxPerformLogs == 1     \* log calls made by performOperation bodies, per run
MaxWriteFailures == 1   \* writeNewFile rejections, per run
MaxItems == 2           \* items of a script
MaxCalls == 3           \* getNext calls on one runtime/UserInputQueue.ts queue
MaxLoggers == 3         \* Logger objects of a SpecLogger run
MaxLogCalls == 2        \* log calls that reach the console in a SpecLogger run
MaxSignals == 2         \* termination events of a SpecLogger run
MaxRuns == 2            \* execute() calls on one instance
MaxUiItems == 4         \* items of the script a UI primitive runs against
MaxUnawaited == 2       \* execute() calls one performOperation starts without await
MaxFilenames == 5       \* calls of generateLogFilename
MaxTimestamps == 4      \* distinct milliseconds the entries carry
\* the size of millisecondCounters above which it is trimmed (1000 in formatter.ts) and
\* the number of counters a trim keeps (900 in formatter.ts), scaled down together
TrimAbove == 3
TrimKeeps == 2

(***************************************************************************)
(* Values.                                                                 *)
(***************************************************************************)
NoLogger == 0           \* a null Logger reference

\* A thrown JavaScript value: its type, its .message (Errors only) and String(value).
NoError == [type |-> "none", message |-> "", str |-> ""]
JsError(m) == [type |-> "Error", message |-> m, str |-> "Error: " \o m]

\* Values a performOperation body throws: an Error and a value that is no Error.
ThrownValues ==
    { JsError("boom"),
      [type |-> "number", message |-> "", str |-> "42"] }

\* new Error('Cannot log to finalized sub-logger')
FinalizedError == JsError("Cannot log to finalized sub-logger")
\* the rejection of writeNewFile (the file system refuses the write)
WriteError == JsError("writeNewFile failed")

\* JavaScript values an Outcome's data (or details) may hold, described by what
\* executeChain and isOperation inspect: typeof, truthiness, and the typeof of the
\* properties `execute` and `name` ("absent" when the property is missing).
JsUndefined == [typeof |-> "undefined", truthy |-> FALSE, execute |-> "absent", name |-> "absent", id |-> 0]
JsNull == [typeof |-> "object", truthy |-> FALSE, execute |-> "absent", name |-> "absent", id |-> 0]
JsNumber == [typeof |-> "number", truthy |-> TRUE, execute |-> "absent", name |-> "absent", id |-> 0]
JsNoName == [typeof |-> "object", truthy |-> TRUE, execute |-> "function", name |-> "absent", id |-> 0]
JsNoExecute == [typeof |-> "object", truthy |-> TRUE, execute |-> "string", name |-> "string", id |-> 0]
\* a BaseOperation instance; id is its _operationId
JsOperation(id) == [typeof |-> "object", truthy |-> TRUE, execute |-> "function", name |-> "string", id |-> id]

\* an object of the operation shape carried where no operation is expected
JsDuck == [typeof |-> "object", truthy |-> TRUE, execute |-> "function", name |-> "string", id |-> 0]

TerminalValues == {JsUndefined, JsNull, JsNumber, JsNoName, JsNoExecute}

Success(d) == [success |-> TRUE, data |-> d, error |-> "", details |-> JsUndefined]
Failure(e, d) == [success |-> FALSE, data |-> JsUndefined, error |-> e, details |-> d]

(***************************************************************************)
(* Logger levels (src/src/types/logger.ts).  The model uses the four       *)
(* levels the instance API of Logger offers.                               *)
(***************************************************************************)
LOG_LEVELS == {"DEBUG", "INFO", "WARNING", "ERROR"}
MULTI_LOG_LEVEL_DEFAULT == {"INFO", "WARNING", "ERROR"}
MULTI_LOG_LEVEL_VERBOSE == LOG_LEVELS

shouldLog(level) == level \in enabledLevels

\* the levels performOperation bodies log at: one that the default configuration
\* filters out and one that every configuration lets through
PerformLevels == {"DEBUG", "INFO"}

(***************************************************************************)
(* The code between two suspension points runs as one action.  Inside an   *)
(* action the state is threaded through a record S:                        *)
(*   st  operationStack      lg  loggers        act activeLoggers          *)
(*   art artifacts           con consoleLines   clk clock                  *)
(*   io  outcomes of the writeNewFile calls still to come in this action   *)
(*       (TRUE = written), wf = writeFailures                              *)
(*   cur the Logger the last `this.logger` evaluation returned             *)
(*   err the exception in flight (NoError when none)                       *)
(*   wr  the writeNewFile call the last finalize() started and awaits      *)
(***************************************************************************)
NoWrite == [logger |-> NoLogger, operationName |-> 0, partNumber |-> 0,
            continuedFrom |-> 0, entries |-> <<>>, writtenAt |-> 0]

State(io) ==
    [st |-> operationStack, lg |-> loggers, act |-> activeLoggers, art |-> artifacts,
     con |-> consoleLines, clk |-> clock, io |-> io, wf |-> writeFailures,
     cur |-> NoLogger, err |-> NoError, wr |-> NoWrite]

Threw(S) == S.err # NoError

\* Logger constructor: a fresh open sub-logger with startTime = new Date(),
\* registered with SubLoggerManager.  closedAt and closedBy remember when and by
\* which call the logger was closed.
NewLogger(S, operationName, partNumber) ==
    [S EXCEPT !.lg = Append(@, [operationName |-> operationName,
                                 partNumber |-> partNumber,
                                 logs |-> <<>>,
                                 finalized |-> FALSE,
                                 startTime |-> S.clk,
                                 closedAt |-> 0,
                                 closedBy |-> ""]),
              !.act = @ \cup {Len(S.lg) + 1},
              !.clk = @ + 1,
              !.cur = Len(S.lg) + 1]

\* Logger.log (instance): level filter, console line, then the finalized check.
log(S, l, level, op, message) ==
    IF ~shouldLog(level) THEN S
    ELSE LET S1 == [S EXCEPT !.con = @ + 1]
         IN IF S1.lg[l].finalized
            THEN [S1 EXCEPT !.err = FinalizedError]
            ELSE [S1 EXCEPT !.lg[l].logs = Append(@, [timestamp |-> S.clk, level |-> level,
                                                      op |-> op, message |-> message]),
                            !.clk = @ + 1]

\* a finalize() that does not look at `finalized`
finalizeBeginAgain(S, l) ==
    LET S1 == [S EXCEPT !.lg[l].finalized = TRUE, !.lg[l].closedAt = S.clk,
                           !.lg[l].closedBy = "finalize", !.act = @ \ {l}]
    IN IF S1.lg[l].logs = <<>> THEN S1
       ELSE [S1 EXCEPT !.wr = [logger |-> l,
                               operationName |-> S1.lg[l].operationName,
                               partNumber |-> S1.lg[l].partNumber,
                               continuedFrom |-> IF S1.lg[l].partNumber > 1
                                                 THEN S1.lg[l].partNumber - 1 ELSE 0,
                               entries |-> S1.lg[l].logs,
                               writtenAt |-> 0]]

\* Logger.finalize up to `await writeNewFile(filename, content)`: idempotent; closes,
\* unregisters, and starts the write of one artifact unless the buffer is empty.
\* A part after the first gets the header [CONTINUED FROM PART n-1].
finalizeBegin(S, l) ==
    IF S.lg[l].finalized THEN S
    ELSE LET S1 == [S EXCEPT !.lg[l].finalized = TRUE, !.lg[l].closedAt = S.clk,
                           !.lg[l].closedBy = "finalize", !.act = @ \ {l}]
         IN IF S1.lg[l].logs = <<>> THEN S1
            ELSE [S1 EXCEPT !.wr = [logger |-> l,
                                    operationName |-> S1.lg[l].operationName,
                                    partNumber |-> S1.lg[l].partNumber,
                                    continuedFrom |-> IF S1.lg[l].partNumber > 1
                                                      THEN S1.lg[l].partNumber - 1 ELSE 0,
                                    entries |-> S1.lg[l].logs,
                               writtenAt |-> 0]]

\* writeNewFile settles: the file exists, or the promise rejects
writeNewFile(S, ok) ==
    IF ok THEN [S EXCEPT !.art = Append(@, [S.wr EXCEPT !.writtenAt = S.clk]), !.wr = NoWrite]
    ELSE [S EXCEPT !.wf = @ + 1, !.err = WriteError, !.wr = NoWrite]

\* a finalize() that leaves the logger in SubLoggerManager.activeLoggers
finalizeStaysRegistered(S, l) ==
    LET S1 == [finalizeBegin(S, l) EXCEPT !.act = S.act]
        ok == IF S.io = <<>> THEN TRUE ELSE Head(S.io)
        rest == IF S.io = <<>> THEN <<>> ELSE Tail(S.io)
    IN IF S1.wr = NoWrite THEN S1
       ELSE writeNewFile([S1 EXCEPT !.io = rest], ok)

\* await logger.finalize() with nothing running in between
finalize(S, l) ==
    LET S1 == finalizeBegin(S, l)
        ok == IF S.io = <<>> THEN TRUE ELSE Head(S.io)
        rest == IF S.io = <<>> THEN <<>> ELSE Tail(S.io)
    IN IF S1.wr = NoWrite THEN S1
       ELSE writeNewFile([S1 EXCEPT !.io = rest], ok)

\* a suspend() that closes the logger without writing its buffer
suspendWithoutWrite(S, l) ==
    LET S1 == [finalizeBegin(S, l) EXCEPT !.wr = NoWrite]
    IN IF S.lg[l].finalized THEN S1 ELSE [S1 EXCEPT !.lg[l].closedBy = "suspend"]

\* await logger.suspend(): finalize(), then the metadata (read from S.lg[l])
suspend(S, l) ==
    LET S1 == finalize(S, l)
    IN IF S.lg[l].finalized THEN S1 ELSE [S1 EXCEPT !.lg[l].closedBy = "suspend"]

\* a resumeFrom that keeps the part number
resumeFromSamePart(S, md) == NewLogger(S, md.operationName, md.partNumber)

\* Logger.resumeFrom
resumeFrom(S, md) == NewLogger(S, md.operationName, md.partNumber + 1)

(***************************************************************************)
(* BaseOperation (src/unnamed/part_020) = BaseOp (src/unnamed/part_007).   *)
(* A frame of operationStack holds the private fields of one instance and  *)
(* what the model remembers about its execute() call.                      *)
(***************************************************************************)
NoMetadata == [operationName |-> 0, partNumber |-> 0]

NewFrame(id, own, before) ==
    [id |-> id,
     own |-> own,                       \* shouldUseParentLogger() overridden to false
     _logger |-> NoLogger,
     _usingParentLogger |-> FALSE,
     _parentLoggerSuspended |-> FALSE,
     _suspensionMetadata |-> NoMetadata,
     stackBefore |-> before,            \* ids on the stack just before the call
     performCalls |-> 0,                \* calls of performOperation in this execute()
     finalizedOwn |-> FALSE,            \* perform called finalizeOwnLogger()
     pending |-> NoError]               \* exception perform has just been handed

NoFrame == NewFrame(0, FALSE, <<>>)

Ids(st) == [i \in 1..Len(st) |-> st[i].id]

\* static get parent(): index of the second-from-top frame, 0 for null
parent(S) == IF Len(S.st) > 1 THEN Len(S.st) - 1 ELSE 0

\* shouldUseParentLogger(): the default, or the override returning false
shouldUseParentLogger(S) ==
    IF S.st[Len(S.st)].own THEN FALSE ELSE parent(S) # 0

\* protected get logger(): the result is left in S.cur
logger(S) ==
    LET n == Len(S.st)
        own == [NewLogger(S, S.st[n].id, 1) EXCEPT !.st[n]._logger = Len(S.lg) + 1,
                                                   !.st[n]._usingParentLogger = FALSE]
    IN IF S.st[n]._logger # NoLogger THEN [S EXCEPT !.cur = S.st[n]._logger]
       ELSE IF parent(S) # 0 /\ shouldUseParentLogger(S)
            THEN IF S.st[parent(S)]._logger = NoLogger
                 THEN own
                 ELSE [S EXCEPT !.st[n]._usingParentLogger = TRUE,
                                !.cur = S.st[parent(S)]._logger]
            ELSE own

\* this.logger.<level>(message)
loggerLog(S, level, message) ==
    LET S1 == logger(S)
    IN log(S1, S1.cur, level, S.st[Len(S.st)].id, message)

\* a finalizeOwnLogger() that finalizes whatever logger the operation logs to
finalizeOwnLoggerInUse(S) ==
    LET S1 == logger(S)
    IN finalize(S1, S1.cur)

\* if (this._logger && !this._usingParentLogger) await this._logger.finalize()
finalizeOwnLogger(S) ==
    LET me == S.st[Len(S.st)]
    IN IF me._logger # NoLogger /\ ~me._usingParentLogger
       THEN finalize(S, me._logger)
       ELSE S

\* a handleParentLoggerSuspension that leaves parent._logger pointing at the suspended part
handleParentLoggerSuspensionKeepsReference(S) ==
    LET n == Len(S.st)
        p == parent(S)
    IN IF p # 0 /\ ~shouldUseParentLogger(S)
          /\ S.st[p]._logger # NoLogger /\ ~S.st[p]._usingParentLogger
       THEN LET l == S.st[p]._logger
                S1 == suspend(S, l)
            IN IF Threw(S1) THEN S1
               ELSE [S1 EXCEPT !.st[n]._suspensionMetadata =
                                    [operationName |-> S.lg[l].operationName,
                                     partNumber |-> S.lg[l].partNumber],
                               !.st[n]._parentLoggerSuspended = TRUE]
       ELSE S

\* handleParentLoggerSuspension (Logger.suspend = finalize + metadata)
handleParentLoggerSuspension(S) ==
    LET n == Len(S.st)
        p == parent(S)
    IN IF p # 0 /\ ~shouldUseParentLogger(S)
          /\ S.st[p]._logger # NoLogger /\ ~S.st[p]._usingParentLogger
       THEN LET l == S.st[p]._logger
                S1 == suspend(S, l)
            IN IF Threw(S1) THEN S1
               ELSE [S1 EXCEPT !.st[n]._suspensionMetadata =
                                    [operationName |-> S.lg[l].operationName,
                                     partNumber |-> S.lg[l].partNumber],
                               !.st[n]._parentLoggerSuspended = TRUE,
                               !.st[p]._logger = NoLogger]
       ELSE S

\* handleParentLoggerResumption
handleParentLoggerResumption(S) ==
    LET n == Len(S.st)
        me == S.st[n]
        p == parent(S)
    IN IF me._parentLoggerSuspended /\ me._suspensionMetadata # NoMetadata /\ p # 0
       THEN LET S1 == resumeFrom(S, me._suspensionMetadata)
                S2 == [S1 EXCEPT !.st[p]._logger = S1.cur]
            IN log(S2, S1.cur, "INFO", S.st[p].id, "RESUMING AFTER CHILD OPERATION")
       ELSE S

\* error instanceof Error ? error.message : String(error)
errorMessage(error) == IF error.type = "Error" THEN error.message ELSE error.str

\* how execute() leaves its try/catch; `frame` is filled in by the finally block
Resolved(S, outcome) == [S |-> S, kind |-> "resolved", outcome |-> outcome, error |-> NoError,
                         frame |-> NoFrame]
Rejected(S) == [S |-> [S EXCEPT !.err = NoError], kind |-> "rejected",
                outcome |-> Success(JsUndefined), error |-> S.err, frame |-> NoFrame]

\* the catch block of execute(): an exception of its own propagates to the caller
catchBlock(S, error) ==
    LET S1 == loggerLog([S EXCEPT !.err = NoError], "ERROR", "Unexpected error in operation")
        S2 == finalizeOwnLogger(S1)
    IN IF Threw(S1) THEN Rejected(S1)
       ELSE IF Threw(S2) THEN Rejected(S2)
       ELSE Resolved(S2, Failure(errorMessage(error), error))

\* a try block that returns the result without finalizing the operation's own logger
tryAfterPerformLeavesLogger(S, result) ==
    LET S1 == loggerLog(S, IF result.success THEN "DEBUG" ELSE "ERROR",
                        IF result.success THEN "completed successfully" ELSE "failed")
        S2 == loggerLog(S1, "DEBUG", "formattedResult")
    IN IF Threw(S1) THEN catchBlock(S1, S1.err)
       ELSE IF Threw(S2) THEN catchBlock(S2, S2.err)
       ELSE Resolved(S2, result)

\* the try block of execute() after performOperation returned `result`
tryAfterPerform(S, result) ==
    LET S1 == loggerLog(S, IF result.success THEN "DEBUG" ELSE "ERROR",
                        IF result.success THEN "completed successfully" ELSE "failed")
        S2 == loggerLog(S1, "DEBUG", "formattedResult")
        S3 == finalizeOwnLogger(S2)
    IN IF Threw(S1) THEN catchBlock(S1, S1.err)
       ELSE IF Threw(S2) THEN catchBlock(S2, S2.err)
       ELSE IF Threw(S3) THEN catchBlock(S3, S3.err)
       ELSE Resolved(S3, result)

\* a finally block whose pop sits on the return path only: skipped when the
\* catch block itself throws
finallyBlockPopOnReturn(R) ==
    LET S1 == handleParentLoggerResumption(R.S)
    IN IF R.kind = "rejected" THEN [R EXCEPT !.S = S1, !.frame = S1.st[Len(S1.st)]]
       ELSE [R EXCEPT !.S = [S1 EXCEPT !.st = SubSeq(@, 1, Len(@) - 1)],
                      !.frame = S1.st[Len(S1.st)]]

\* the finally block of execute(): resume the parent's logger, then pop
finallyBlock(R) ==
    LET S1 == handleParentLoggerResumption(R.S)
    IN [R EXCEPT !.S = [S1 EXCEPT !.st = SubSeq(@, 1, Len(@) - 1)],
                 !.frame = S1.st[Len(S1.st)]]

\* execute() from the return (or throw) of performOperation to its settlement
(* performed = [threw, outcome, error] *)
executeEnd(S, performed) ==
    finallyBlock(IF performed.threw
                 THEN catchBlock(S, performed.error)
                 ELSE tryAfterPerform(S, performed.outcome))

\* execute() from its call to the call of performOperation.  `kind` is "running"
\* when performOperation has been called, else how execute() settled without it.
(* `frame` is the instance: its fields as they are when execute() is called *)
executeFrom(S, frame) ==
    LET S1 == [S EXCEPT !.st = Append(@, frame)]
        S2 == handleParentLoggerSuspension(S1)
        S3 == loggerLog(S2, "DEBUG", "Starting operation")
    IN IF Threw(S2) THEN finallyBlock(catchBlock(S2, S2.err))
       ELSE IF Threw(S3) THEN finallyBlock(catchBlock(S3, S3.err))
       ELSE [S |-> [S3 EXCEPT !.st[Len(S3.st)].performCalls = @ + 1],
             kind |-> "running", outcome |-> Success(JsUndefined), error |-> NoError,
             frame |-> NoFrame]

\* execute() of a newly constructed instance
executeBegin(S, id, own) == executeFrom(S, NewFrame(id, own, Ids(S.st)))

(***************************************************************************)
(* isOperation (src/src/operations/base/isOperation.ts)                    *)
(***************************************************************************)
\* an isOperation that does not look at `name`
isOperationNoName(value) ==
    /\ value.typeof = "object" /\ value.truthy
    /\ value.execute = "function"

isOperation(value) ==
    /\ ~(value.typeof = "object" /\ ~value.truthy)      \* value !== null
    /\ value.typeof # "undefined"
    /\ value.typeof = "object"
    /\ value.execute # "absent"
    /\ value.execute = "function"
    /\ value.name # "absent"
    /\ value.name = "string"

(***************************************************************************)
(* State of the run.                                                       *)
(***************************************************************************)
NoSettle ==
    [op |-> 0, kind |-> "none", outcome |-> Success(JsUndefined), error |-> NoError,
     stackBefore |-> <<>>, stackAfter |-> <<>>, performCalls |-> 0,
     performed |-> [threw |-> FALSE, outcome |-> Success(JsUndefined), error |-> NoError],
     finalizedOwn |-> FALSE, own |-> FALSE, suspended |-> FALSE,
     suspensionMetadata |-> NoMetadata, resumed |-> {},
     _logger |-> NoLogger, _usingParentLogger |-> FALSE]

NotPerformed == [threw |-> FALSE, outcome |-> Success(JsUndefined), error |-> NoError]

\* the record of a settled execute(): R is the result of executeBegin/executeEnd,
\* frame the instance's frame when the last part of execute() began, R.frame the
\* frame as the finally block left it; `resumed` are the loggers that
\* Logger.resumeFrom created during this part of execute()
Settlement(R, frame, performed) ==
    [op |-> frame.id, kind |-> R.kind, outcome |-> R.outcome, error |-> R.error,
     stackBefore |-> frame.stackBefore, stackAfter |-> Ids(R.S.st),
     performCalls |-> frame.performCalls, performed |-> performed,
     finalizedOwn |-> frame.finalizedOwn,
     own |-> R.frame.own,
     suspended |-> R.frame._parentLoggerSuspended,
     suspensionMetadata |-> R.frame._suspensionMetadata,
     resumed |-> {l \in (Len(loggers) + 1)..Len(R.S.lg) : R.S.lg[l].partNumber > 1},
     _logger |-> R.frame._logger,
     _usingParentLogger |-> R.frame._usingParentLogger]

\* outcomes of the writeNewFile calls of one action (at most two happen)
IoChoices ==
    { io \in [1..2 -> BOOLEAN] :
        Cardinality({i \in 1..2 : ~io[i]}) <= MaxWriteFailures - writeFailures }

\* an exception that leaves execute() reaches the caller's performOperation
Deliver(st, R) ==
    IF Len(st) > 0 /\ R.kind = "rejected"
    THEN [st EXCEPT ![Len(st)].pending = R.error]
    ELSE st

Commit(S) ==
    /\ operationStack' = S.st
    /\ loggers' = S.lg
    /\ activeLoggers' = S.act
    /\ artifacts' = S.art
    /\ consoleLines' = S.con
    /\ clock' = S.clk
    /\ writeFailures' = S.wf

\* an execute() call has settled
CommitSettled(R, frame, performed) ==
    /\ Commit([R.S EXCEPT !.st = Deliver(@, R)])
    /\ lastSettle' = Settlement(R, frame, performed)

\* an execute() call was started: it is now inside performOperation, or it settled
CommitBegun(R, id, before) ==
    IF R.kind = "running"
    THEN Commit(R.S) /\ lastSettle' = NoSettle
    ELSE CommitSettled(R, NewFrame(id, FALSE, before), NotPerformed)

Top == operationStack[Len(operationStack)]
InPerform == Len(operationStack) > 0

InitExec ==
    /\ operationStack = <<>>
    /\ loggers = <<>>
    /\ activeLoggers = {}
    /\ artifacts = <<>>
    /\ consoleLines = 0
    /\ clock = 1
    /\ operationNumber = 0
    /\ writeFailures = 0
    /\ performLogs = 0
    /\ started = <<>>
    /\ lastSettle = NoSettle
    /\ chain = [status |-> "idle", depth |-> 0, invoked |-> <<>>, results |-> <<>>,
                error |-> NoError]
    /\ fatalLog = <<>>

(***************************************************************************)
(* performOperation bodies: any sequence of the steps below, ended by a    *)
(* return or a throw.  Only the operation on top of the stack runs.        *)
(***************************************************************************)

\* this.logger.<level>(...) inside performOperation
PerformLog(level) ==
    /\ InPerform
    /\ performLogs < MaxPerformLogs
    /\ LET S == loggerLog(State(<<>>), level, "perform")
           n == Len(S.st)
       IN Commit([S EXCEPT !.st[n].pending = S.err])
    /\ performLogs' = performLogs + 1
    /\ lastSettle' = NoSettle
    /\ UNCHANGED <<enabledLevels, operationNumber, started, chain, fatalLog>>

\* await this.finalizeOwnLogger() inside performOperation
PerformFinalizeOwnLogger(io) ==
    /\ InPerform
    /\ ~Top.finalizedOwn
    /\ LET S == finalizeOwnLogger(State(io))
           n == Len(S.st)
       IN Commit([S EXCEPT !.st[n].finalizedOwn = TRUE, !.st[n].pending = S.err])
    /\ lastSettle' = NoSettle
    /\ UNCHANGED <<enabledLevels, operationNumber, performLogs, started, chain, fatalLog>>

\* await new Child(...).execute() inside performOperation
PerformChild(own, io) ==
    /\ InPerform
    /\ operationNumber < MaxOps
    /\ LET id == operationNumber + 1
           S0 == State(io)
           R == executeBegin([S0 EXCEPT !.st[Len(S0.st)].pending = NoError], id, own)
       IN /\ CommitBegun(R, id, Ids(operationStack))
          /\ operationNumber' = id
          /\ started' = Append(started, [id |-> id, depth |-> Len(operationStack), own |-> own,
                                        ancestors |-> Ids(operationStack), fresh |-> TRUE])
    /\ UNCHANGED <<enabledLevels, performLogs, chain, fatalLog>>

\* await new Root(...).execute() called directly, on an empty stack, outside any
\* executeChain
Execute ==
    /\ chain.status = "idle"
    /\ operationStack = <<>>
    /\ operationNumber = 0
    /\ LET id == operationNumber + 1
           R == executeBegin(State(<<>>), id, FALSE)
       IN /\ CommitBegun(R, id, <<>>)
          /\ operationNumber' = id
          /\ started' = Append(started, [id |-> id, depth |-> 0, own |-> FALSE,
                                        ancestors |-> <<>>, fresh |-> TRUE])
    /\ UNCHANGED <<enabledLevels, performLogs, chain, fatalLog>>

\* the instance has nothing left over from an earlier execute(): no logger
\* reference, no parent-suspended flag, no suspension metadata
Fresh(frame) ==
    /\ frame._logger = NoLogger
    /\ ~frame._parentLoggerSuspended
    /\ frame._suspensionMetadata = NoMetadata

\* await op.execute() once more, by the caller whose previous op.execute() has just
\* settled (a loop such as `for (const target of targets) await op.run()`): the
\* instance keeps its private fields, execute() resets none of them
ExecuteAgain ==
    /\ lastSettle.kind \in {"resolved", "rejected"}
    /\ chain.status = "idle"
    /\ Ids(operationStack) = lastSettle.stackBefore
    /\ Cardinality({i \in 1..Len(started) : started[i].id = lastSettle.op}) < MaxRuns
    /\ LET id == lastSettle.op
           frame == [NewFrame(id, lastSettle.own, Ids(operationStack)) EXCEPT
                         !._logger = lastSettle._logger,
                         !._usingParentLogger = lastSettle._usingParentLogger,
                         !._parentLoggerSuspended = lastSettle.suspended,
                         !._suspensionMetadata = lastSettle.suspensionMetadata]
           S0 == State(<<>>)
           S1 == IF S0.st = <<>> THEN S0 ELSE [S0 EXCEPT !.st[Len(S0.st)].pending = NoError]
           R == executeFrom(S1, frame)
       IN /\ CommitBegun(R, id, Ids(operationStack))
          /\ started' = Append(started, [id |-> id, depth |-> Len(operationStack),
                                        own |-> lastSettle.own,
                                        ancestors |-> Ids(operationStack),
                                        fresh |-> Fresh(frame)])
    /\ UNCHANGED <<enabledLevels, operationNumber, performLogs, chain, fatalLog>>

\* the Outcomes a performOperation body returns
Outcomes ==
    {Success(d) : d \in TerminalValues}
        \cup {Failure("business failure", JsUndefined),
              Failure("business failure", JsDuck)}

\* return result;  (a plain value)
PerformReturn(outcome, io) ==
    /\ InPerform
    /\ LET performed == [threw |-> FALSE, outcome |-> outcome, error |-> NoError]
       IN CommitSettled(executeEnd(State(io), performed), Top, performed)
    /\ UNCHANGED <<enabledLevels, operationNumber, performLogs, started, chain, fatalLog>>

\* return { success: true, data: new NextOperation(...) };
PerformReturnOperation(io) ==
    /\ InPerform
    /\ operationNumber < MaxOps
    /\ LET performed == [threw |-> FALSE, outcome |-> Success(JsOperation(operationNumber + 1)),
                         error |-> NoError]
       IN CommitSettled(executeEnd(State(io), performed), Top, performed)
    /\ operationNumber' = operationNumber + 1
    /\ UNCHANGED <<enabledLevels, performLogs, started, chain, fatalLog>>

\* throw e;  (or an exception the body was handed and lets escape)
PerformThrow(e, io) ==
    /\ InPerform
    /\ e \in ThrownValues \cup ({Top.pending} \ {NoError})
    /\ LET performed == [threw |-> TRUE, outcome |-> Success(JsUndefined), error |-> e]
       IN CommitSettled(executeEnd(State(io), performed), Top, performed)
    /\ UNCHANGED <<enabledLevels, operationNumber, performLogs, started, chain, fatalLog>>

(***************************************************************************)
(* OperationRunner.executeChain (src/src/runtime/OpStack.ts:70-90),        *)
(* the same code as OpStack.run (lines 19-39).                             *)
(***************************************************************************)

\* executeChain(operation): the operation that just ran, again
chainNextSame(operation, result) == operation

\* executeChain(result.data): the operation run next
chainNext(operation, result) == result.data.id

\* result.success && result.data && isOperation(result.data)
continuesChain(result) == result.success /\ result.data.truthy /\ isOperation(result.data)

\* a catch block that does not rethrow
chainCatchSwallow(c, error) ==
    [c EXCEPT !.status = "completed", !.depth = 0,
              !.results = Append(@, [kind |-> "rejected", outcome |-> Success(JsUndefined),
                                     error |-> error, continued |-> FALSE])]

\* the catch block: Logger.error('FATAL: Operation crashed', error), console.error(...)
\* and `throw error`, once in every executeChain frame the exception unwinds
chainCatch(c, error) ==
    [c EXCEPT !.status = "rejected", !.error = error, !.depth = 0,
              !.results = Append(@, [kind |-> "rejected", outcome |-> Success(JsUndefined),
                                     error |-> error, continued |-> FALSE])]

fatalEntries(depth, error) ==
    [i \in 1..depth |-> [logged |-> shouldLog("ERROR"), message |-> "FATAL: Operation crashed",
                         printed |-> TRUE, error |-> error]]

\* executeChain(root) up to the point where root.execute() is inside performOperation
ExecuteChain(io) ==
    /\ chain.status = "idle"
    /\ operationNumber < MaxOps
    /\ LET id == operationNumber + 1
           R == executeBegin(State(io), id, FALSE)
       IN /\ CommitBegun(R, id, <<>>)
          /\ operationNumber' = id
          /\ started' = Append(started, [id |-> id, depth |-> Len(operationStack), own |-> FALSE,
                                        ancestors |-> Ids(operationStack), fresh |-> TRUE])
          /\ chain' = [chain EXCEPT !.status = "running", !.depth = 1, !.invoked = <<id>>]
    /\ UNCHANGED <<enabledLevels, performLogs, fatalLog>>

ChainAwaiting ==
    /\ chain.status = "running"
    /\ operationStack = <<>>
    /\ lastSettle.op = chain.invoked[Len(chain.invoked)]
    /\ Len(chain.results) < Len(chain.invoked)

\* the Outcome's data is an operation: await executeChain(result.data)
ChainContinue(io) ==
    /\ ChainAwaiting
    /\ lastSettle.kind = "resolved"
    /\ continuesChain(lastSettle.outcome)
    /\ LET id == chainNext(lastSettle.op, lastSettle.outcome)
           R == executeBegin(State(io), id, FALSE)
       IN /\ CommitBegun(R, id, <<>>)
          /\ started' = Append(started, [id |-> id, depth |-> Len(operationStack), own |-> FALSE,
                                        ancestors |-> Ids(operationStack), fresh |-> TRUE])
          /\ chain' = [chain EXCEPT !.depth = @ + 1, !.invoked = Append(@, id),
                                    !.results = Append(@, [kind |-> "resolved",
                                                           outcome |-> lastSettle.outcome,
                                                           error |-> NoError,
                                                           continued |-> TRUE])]
    /\ UNCHANGED <<enabledLevels, operationNumber, performLogs, fatalLog>>

\* otherwise done: every executeChain frame returns
ChainComplete ==
    /\ ChainAwaiting
    /\ lastSettle.kind = "resolved"
    /\ ~continuesChain(lastSettle.outcome)
    /\ chain' = [chain EXCEPT !.status = "completed", !.depth = 0,
                              !.results = Append(@, [kind |-> "resolved",
                                                     outcome |-> lastSettle.outcome,
                                                     error |-> NoError,
                                                     continued |-> FALSE])]
    /\ UNCHANGED <<enabledLevels, operationStack, loggers, activeLoggers, artifacts,
                   consoleLines, clock, operationNumber, writeFailures, performLogs,
                   started, lastSettle, fatalLog>>

\* operation.execute() rejected: catch, log, print, rethrow
ChainCatch ==
    /\ ChainAwaiting
    /\ lastSettle.kind = "rejected"
    /\ chain' = chainCatch(chain, lastSettle.error)
    /\ fatalLog' = fatalLog \o fatalEntries(chain.depth, lastSettle.error)
    /\ UNCHANGED <<enabledLevels, operationStack, loggers, activeLoggers, artifacts,
                   consoleLines, clock, operationNumber, writeFailures, performLogs,
                   started, lastSettle>>

(***************************************************************************)
(* Logger objects used directly, and SubLoggerManager (SpecLogger).        *)
(* finalize() is asynchronous: between the start of its write and the      *)
(* settlement of the write other callers and the signal handlers run.      *)
(* A write in flight is [owner, file]: owner 0 is a finalize() caller,     *)
(* -1 a suspend() caller, h >= 1 the finalizeAll invocation handlers[h].   *)
(***************************************************************************)
NoLog == [call |-> "none", logger |-> NoLogger, level |-> "", finalizedBefore |-> FALSE,
          threw |-> FALSE, appended |-> FALSE]
\* a call of finalize(), suspend() or emergencyFinalize() on logger l
CloseCall(call, l) == [call |-> call, logger |-> l, level |-> "",
                       finalizedBefore |-> loggers[l].finalized, threw |-> FALSE,
                       appended |-> FALSE]

\* formatter.ts before the first call: const millisecondCounters = new Map()
NoFormatter == [millisecondCounters |-> <<>>, names |-> <<>>]

LoggerIdle ==
    /\ writes = {}
    /\ handlers = <<>>
    /\ exited = FALSE
    /\ lastLog = NoLog
    /\ metadata = {}
    /\ resumes = <<>>
    /\ formatter = NoFormatter

Metadata(lg) == [operationName |-> lg.operationName, partNumber |-> lg.partNumber]

\* the loggers of a Set, in insertion order (the order of construction)
RECURSIVE ArrayFrom(_)
ArrayFrom(set) ==
    IF set = {} THEN <<>>
    ELSE LET first == CHOOSE l \in set : \A k \in set : l <= k
         IN <<first>> \o ArrayFrom(set \ {first})

\* Logger.emergencyFinalize up to the await of the write
emergencyFinalize(S, l) ==
    IF S.lg[l].finalized THEN S
    ELSE finalizeBegin(log(S, l, "WARNING", 0, "Sub-logger finalized due to reason"), l)

ExitingReasons == {"SIGINT", "SIGTERM"}
\* the events the model delivers: a signal and an unhandled rejection
Reasons == {"SIGINT", "unhandledrejection"}

\* the loop of finalizeAll from logger number i on, until it awaits a write or ends:
\* [S, i, finished]
RECURSIVE finalizeAllLoop(_, _, _)
finalizeAllLoop(S, array, i) ==
    IF i > Len(array) THEN [S |-> S, i |-> i, finished |-> TRUE]
    ELSE LET S1 == emergencyFinalize(S, array[i])
         IN IF S1.wr # NoWrite THEN [S |-> S1, i |-> i, finished |-> FALSE]
            ELSE finalizeAllLoop(S1, array, i + 1)

\* the end of finalizeAll: Deno.exit(0) for the signals
exits(reason, finished) == finished /\ reason \in ExitingReasons

CommitLogger(S) ==
    /\ Commit(S)
    /\ UNCHANGED <<enabledLevels, operationNumber, performLogs, started, lastSettle, chain,
                   fatalLog>>

InFlight(S, owner) == IF S.wr = NoWrite THEN {} ELSE {[owner |-> owner, file |-> S.wr]}

\* new Logger(operationName): the first part of a new record
Construct_Logger ==
    /\ ~exited
    /\ Len(loggers) < MaxLoggers
    /\ LET name == Cardinality({l \in 1..Len(loggers) : loggers[l].partNumber = 1}) + 1
       IN CommitLogger(NewLogger(State(<<>>), name, 1))
    /\ lastLog' = NoLog
    /\ UNCHANGED <<writes, handlers, exited, metadata, resumes, formatter>>

\* logger.debug / info / warning / error
Log(l, level) ==
    /\ ~exited
    /\ consoleLines < MaxLogCalls
    /\ LET S == log(State(<<>>), l, level, 0, "message")
       IN /\ CommitLogger([S EXCEPT !.err = NoError])
          /\ lastLog' = [call |-> "log", logger |-> l, level |-> level,
                         finalizedBefore |-> loggers[l].finalized,
                         threw |-> Threw(S),
                         appended |-> Len(S.lg[l].logs) > Len(loggers[l].logs)]
    /\ UNCHANGED <<writes, handlers, exited, metadata, resumes, formatter>>

\* logger.finalize(), up to the await
Finalize(l) ==
    /\ ~exited
    /\ LET S == finalizeBegin(State(<<>>), l)
       IN /\ CommitLogger([S EXCEPT !.wr = NoWrite])
          /\ writes' = writes \cup InFlight(S, 0)
    /\ lastLog' = CloseCall("finalize", l)
    /\ UNCHANGED <<handlers, exited, metadata, resumes, formatter>>

\* the part of a record that is in use: no suspend() has been called on it
CurrentPart(l) ==
    /\ Metadata(loggers[l]) \notin metadata
    /\ \A w \in writes : ~(w.owner = -1 /\ w.file.logger = l)
    /\ \A k \in 1..Len(loggers) : ~(loggers[k].operationName = loggers[l].operationName
                                     /\ loggers[k].partNumber > loggers[l].partNumber)

\* logger.suspend(): finalize, then return the metadata
Suspend(l) ==
    /\ ~exited
    /\ CurrentPart(l)
    /\ LET S == finalizeBegin(State(<<>>), l)
       IN /\ CommitLogger([S EXCEPT !.wr = NoWrite])
          /\ writes' = writes \cup InFlight(S, -1)
          /\ metadata' = IF S.wr = NoWrite THEN metadata \cup {Metadata(loggers[l])}
                         ELSE metadata
    /\ lastLog' = CloseCall("suspend", l)
    /\ UNCHANGED <<handlers, exited, resumes, formatter>>

\* Logger.resumeFrom(metadata)
ResumeFrom(md) ==
    /\ ~exited
    /\ md \in metadata
    /\ Len(loggers) < MaxLoggers
    /\ LET S == resumeFrom(State(<<>>), md)
       IN /\ CommitLogger(S)
          /\ resumes' = Append(resumes, [metadata |-> md, logger |-> S.cur])
    /\ metadata' = metadata \ {md}
    /\ lastLog' = NoLog
    /\ UNCHANGED <<writes, handlers, exited, formatter>>

\* SIGINT, SIGTERM or an unhandled rejection: finalizeAll(reason) runs up to its
\* first await (or to its end)
Signal(reason) ==
    /\ ~exited
    /\ Len(handlers) < MaxSignals
    /\ LET S0 == State(<<>>)
           array == ArrayFrom(activeLoggers)
           R == finalizeAllLoop([S0 EXCEPT !.act = {}], array, 1)
           h == Len(handlers) + 1
       IN /\ CommitLogger([R.S EXCEPT !.wr = NoWrite])
          /\ writes' = writes \cup InFlight(R.S, h)
          /\ handlers' = Append(handlers, [reason |-> reason, loggers |-> array, i |-> R.i,
                                           finished |-> R.finished])
          /\ exited' = exits(reason, R.finished)
    /\ lastLog' = NoLog
    /\ UNCHANGED <<metadata, resumes, formatter>>

\* a write settles (the file is there); its awaiter goes on
WriteSettles(w) ==
    /\ ~exited
    /\ w \in writes
    /\ LET S0 == State(<<>>)
           S1 == writeNewFile([S0 EXCEPT !.wr = w.file], TRUE)
       IN IF w.owner >= 1
          THEN LET hd == handlers[w.owner]
                   R == finalizeAllLoop(S1, hd.loggers, hd.i + 1)
               IN /\ CommitLogger([R.S EXCEPT !.wr = NoWrite])
                  /\ writes' = (writes \ {w}) \cup InFlight(R.S, w.owner)
                  /\ handlers' = [handlers EXCEPT ![w.owner].i = R.i,
                                                  ![w.owner].finished = R.finished]
                  /\ exited' = exits(hd.reason, R.finished)
                  /\ UNCHANGED metadata
          ELSE /\ CommitLogger(S1)
               /\ writes' = writes \ {w}
               /\ metadata' = IF w.owner = -1
                              THEN metadata \cup {Metadata(loggers[w.file.logger])}
                              ELSE metadata
               /\ UNCHANGED <<handlers, exited>>
    /\ lastLog' = NoLog
    /\ UNCHANGED <<resumes, formatter>>

\* logger.emergencyFinalize(reason), called directly, up to the await
EmergencyFinalize(l) ==
    /\ ~exited
    /\ LET S == emergencyFinalize(State(<<>>), l)
       IN /\ CommitLogger([S EXCEPT !.wr = NoWrite])
          /\ writes' = writes \cup InFlight(S, 0)
    /\ lastLog' = CloseCall("emergencyFinalize", l)
    /\ UNCHANGED <<handlers, exited, metadata, resumes, formatter>>

\* one logical record: a Logger object, the parts resumed from it, and their callers
NextLogger ==
    \/ loggers = <<>> /\ Construct_Logger /\ UNCHANGED queueVars
    \/ \E l \in 1..Len(loggers), level \in LOG_LEVELS : Log(l, level) /\ UNCHANGED queueVars
    \/ \E l \in 1..Len(loggers) : Finalize(l) /\ UNCHANGED queueVars
    \/ \E l \in 1..Len(loggers) : EmergencyFinalize(l) /\ UNCHANGED queueVars
    \/ \E l \in 1..Len(loggers) : Suspend(l) /\ UNCHANGED queueVars
    \/ \E md \in metadata : ResumeFrom(md) /\ UNCHANGED queueVars
    \/ \E w \in writes : WriteSettles(w) /\ UNCHANGED queueVars

\* Logger objects, their callers and the termination handlers
NextSignal ==
    \/ Construct_Logger /\ UNCHANGED queueVars
    \/ \E l \in 1..Len(loggers) : Log(l, "INFO") /\ UNCHANGED queueVars
    \/ \E l \in 1..Len(loggers) : Finalize(l) /\ UNCHANGED queueVars
    \/ \E reason \in Reasons : Signal(reason) /\ UNCHANGED queueVars
    \/ \E w \in writes : WriteSettles(w) /\ UNCHANGED queueVars

(***************************************************************************)
(* UserInputQueue.  Strings are sequences of one-character strings.        *)
(*   uiq    models src/unnamed/part_005 (typed entries, `used`, throws)    *)
(*   uiqV1  models src/src/runtime/UserInputQueue.ts                       *)
(* An entry is [type, value, vt] with vt the JavaScript typeof of value.   *)
(***************************************************************************)
DQ == "\""
SQ == "'"
BS == "\\"

W_select == <<"s", "e", "l", "e", "c", "t">>
W_input == <<"i", "n", "p", "u", "t">>
W_toggle == <<"t", "o", "g", "g", "l", "e">>
W_confirm == <<"c", "o", "n", "f", "i", "r", "m">>
W_checkbox == <<"c", "h", "e", "c", "k", "b", "o", "x">>
W_yes == <<"y", "e", "s">>
W_no == <<"n", "o">>
W_help == <<"h", "e", "l", "p">>
W_true == <<"t", "r", "u", "e">>
W_on == <<"o", "n">>
W_y == <<"y">>

\* String.prototype.toLowerCase on the letters the scripts use
LowerChar(c) ==
    CASE c = "Y" -> "y" [] c = "E" -> "e" [] c = "S" -> "s" [] c = "O" -> "o"
      [] c = "N" -> "n" [] OTHER -> c
toLowerCase(str) == [i \in 1..Len(str) |-> LowerChar(str[i])]

\* String.prototype.trim
RECURSIVE trimStart(_)
trimStart(str) == IF str # <<>> /\ Head(str) = " " THEN trimStart(Tail(str)) ELSE str
RECURSIVE trimEnd(_)
trimEnd(str) ==
    IF str # <<>> /\ str[Len(str)] = " " THEN trimEnd(SubSeq(str, 1, Len(str) - 1)) ELSE str
trim(str) == trimEnd(trimStart(str))

\* String.prototype.indexOf(ch), 1-based; 0 stands for -1
indexOf(str, ch) ==
    IF \E i \in 1..Len(str) : str[i] = ch
    THEN CHOOSE i \in 1..Len(str) : str[i] = ch /\ \A j \in 1..(i - 1) : str[j] # ch
    ELSE 0

startsWith(str, ch) == str # <<>> /\ str[1] = ch
endsWith(str, ch) == str # <<>> /\ str[Len(str)] = ch

\* parseInt(str, 10): optional sign, then the leading digits; NaN when there are none
NaN == [nan |-> TRUE, n |-> 0]
DigitValue(c) ==
    CASE c = "0" -> 0 [] c = "1" -> 1 [] c = "2" -> 2 [] c = "3" -> 3 [] c = "4" -> 4
      [] c = "5" -> 5 [] c = "6" -> 6 [] c = "7" -> 7 [] c = "8" -> 8 [] c = "9" -> 9
      [] OTHER -> -1
RECURSIVE leadingDigits(_, _, _)
leadingDigits(str, acc, seen) ==
    IF str # <<>> /\ DigitValue(Head(str)) >= 0
    THEN leadingDigits(Tail(str), 10 * acc + DigitValue(Head(str)), TRUE)
    ELSE [nan |-> ~seen, n |-> acc]
parseInt(str) ==
    LET t == trimStart(str)
        neg == startsWith(t, "-")
        body == IF neg \/ startsWith(t, "+") THEN Tail(t) ELSE t
        r == leadingDigits(body, 0, FALSE)
    IN IF r.nan THEN NaN ELSE [nan |-> FALSE, n |-> IF neg THEN 0 - r.n ELSE r.n]

\* parseInputString, first loop: split at commas outside quotes (both classes)
RECURSIVE splitLoop(_, _, _)
splitLoop(input, i, st) ==
    IF i > Len(input) THEN st
    ELSE LET char == input[i]
             unescaped == (i = 1 \/ input[i - 1] # BS)
         IN IF (char = DQ \/ char = SQ) /\ unescaped
            THEN IF ~st.inQuotes
                 THEN splitLoop(input, i + 1, [st EXCEPT !.inQuotes = TRUE, !.quoteChar = char])
                 ELSE IF char = st.quoteChar
                 THEN splitLoop(input, i + 1, [st EXCEPT !.inQuotes = FALSE, !.quoteChar = ""])
                 ELSE splitLoop(input, i + 1, [st EXCEPT !.current = Append(@, char)])
            ELSE IF char = "," /\ ~st.inQuotes
            THEN splitLoop(input, i + 1, [st EXCEPT !.parts = Append(@, trim(st.current)),
                                                    !.current = <<>>])
            ELSE splitLoop(input, i + 1, [st EXCEPT !.current = Append(@, char)])

splitParts(input) ==
    LET st == splitLoop(input, 1, [parts |-> <<>>, current |-> <<>>, inQuotes |-> FALSE,
                                   quoteChar |-> ""])
    IN IF st.current # <<>> THEN Append(st.parts, trim(st.current)) ELSE st.parts

\* Remove quotes if present
unquote(value) ==
    IF (startsWith(value, DQ) /\ endsWith(value, DQ)) \/ (startsWith(value, SQ) /\ endsWith(value, SQ))
    THEN SubSeq(value, 2, Len(value) - 1)
    ELSE value

Entry(type, value, vt) == [type |-> type, value |-> value, vt |-> vt]
NoEntry == Entry("none", 0, "undefined")

\* the type and value string of one part (colonIndex # -1)
partType(part) == trim(SubSeq(part, 1, indexOf(part, ":") - 1))
partValue(part) == trim(SubSeq(part, indexOf(part, ":") + 1, Len(part)))

toggleValue(valueStr) ==
    toLowerCase(valueStr) = W_yes \/ toLowerCase(valueStr) = W_true \/ toLowerCase(valueStr) = W_on

\* parseInputString of part_005, second loop, one part:
\* what it does with the part: "skip", "push" (the entry) or "throw"
parsePart(part) ==
    IF indexOf(part, ":") = 0 THEN [do |-> "skip", entry |-> NoEntry]
    ELSE LET type == partType(part)
             valueStr == partValue(part)
         IN CASE type = W_select ->
                    IF ~parseInt(valueStr).nan
                    THEN [do |-> "push", entry |-> Entry("select", parseInt(valueStr).n, "number")]
                    ELSE [do |-> "skip", entry |-> NoEntry]
              [] type = W_input ->
                    [do |-> "push", entry |-> Entry("input", unquote(valueStr), "string")]
              [] type = W_toggle ->
                    [do |-> "push", entry |-> Entry("toggle", toggleValue(valueStr), "boolean")]
              [] type = W_confirm ->
                    IF valueStr = W_yes \/ valueStr = W_no \/ valueStr = W_help
                    THEN [do |-> "push", entry |-> Entry("confirm", valueStr, "string")]
                    ELSE [do |-> "throw", entry |-> NoEntry]
              [] OTHER -> [do |-> "throw", entry |-> NoEntry]

\* String.prototype.split(',')
RECURSIVE splitComma(_, _)
splitComma(str, current) ==
    IF str = <<>> THEN <<current>>
    ELSE IF Head(str) = "," THEN <<current>> \o splitComma(Tail(str), <<>>)
    ELSE splitComma(Tail(str), Append(current, Head(str)))

\* parseInputString of runtime/UserInputQueue.ts, second loop, one part
parsePartV1(part) ==
    IF indexOf(part, ":") = 0 THEN [do |-> "skip", entry |-> NoEntry]
    ELSE LET type == partType(part)
             valueStr == partValue(part)
         IN CASE type = W_select ->
                    IF ~parseInt(valueStr).nan
                    THEN [do |-> "push", entry |-> Entry("select", parseInt(valueStr).n, "number")]
                    ELSE [do |-> "skip", entry |-> NoEntry]
              [] type = W_input ->
                    [do |-> "push", entry |-> Entry("input", unquote(valueStr), "string")]
              [] type = W_toggle ->
                    [do |-> "push", entry |-> Entry("toggle", toggleValue(valueStr), "boolean")]
              [] type = W_confirm ->
                    [do |-> "push",
                     entry |-> Entry("confirm",
                                     toLowerCase(valueStr) = W_yes \/ toLowerCase(valueStr) = W_y
                                        \/ toLowerCase(valueStr) = W_true,
                                     "boolean")]
              [] type = W_checkbox ->
                    IF startsWith(valueStr, "[") /\ endsWith(valueStr, "]")
                    THEN LET vs == splitComma(SubSeq(valueStr, 2, Len(valueStr) - 1), <<>>)
                         IN [do |-> "push",
                             entry |-> Entry("checkbox",
                                             [i \in 1..Len(vs) |-> unquote(trim(vs[i]))], "object")]
                    ELSE [do |-> "skip", entry |-> NoEntry]
              [] OTHER -> [do |-> "skip", entry |-> NoEntry]

\* the loop over the parts: [threw, actions]
RECURSIVE parseParts(_, _, _)
parseParts(parts, actions, v1) ==
    IF parts = <<>> THEN [threw |-> FALSE, actions |-> actions]
    ELSE LET r == IF v1 THEN parsePartV1(Head(parts)) ELSE parsePart(Head(parts))
         IN IF r.do = "throw" THEN [threw |-> TRUE, actions |-> actions]
            ELSE parseParts(Tail(parts),
                            IF r.do = "push" THEN Append(actions, r.entry) ELSE actions, v1)

parseInputString(input) == parseParts(splitParts(input), <<>>, FALSE)
parseInputStringV1(input) == parseParts(splitParts(input), <<>>, TRUE)

\* new UserInputQueue(inputString) of part_005: the object, or "threw"
NewQueue == [state |-> "none", queue |-> <<>>, used |-> <<>>, originalQueue |-> <<>>,
             interactionCount |-> 0]
constructQueue(inputString) ==
    IF inputString = <<>> THEN [NewQueue EXCEPT !.state = "ok"]
    ELSE LET r == parseInputString(inputString)
         IN IF r.threw THEN [NewQueue EXCEPT !.state = "threw"]
            ELSE [NewQueue EXCEPT !.state = "ok", !.queue = r.actions,
                                  !.originalQueue = r.actions]

\* new UserInputQueue(inputString) of runtime/UserInputQueue.ts
NewQueueV1 == [state |-> "none", queue |-> <<>>, originalQueue |-> <<>>, interactionCount |-> 0]
constructQueueV1(inputString) ==
    IF inputString = <<>> THEN [NewQueueV1 EXCEPT !.state = "ok"]
    ELSE LET r == parseInputStringV1(inputString)
         IN IF r.threw THEN [NewQueueV1 EXCEPT !.state = "threw"]
            ELSE [NewQueueV1 EXCEPT !.state = "ok", !.queue = r.actions,
                                    !.originalQueue = r.actions]

\* getNext that looks at the head before taking it: a mismatch leaves the queue as it was
getNextPeekFirst(q, type) ==
    IF q.queue = <<>>
    THEN [q |-> q, result |-> "null", entry |-> NoEntry]
    ELSE LET queued == Head(q.queue)
             q1 == [q EXCEPT !.queue = Tail(@), !.used = Append(@, queued),
                             !.interactionCount = @ + 1]
         IN IF queued.type # type
            THEN [q |-> q, result |-> "throw", entry |-> NoEntry]
            ELSE [q |-> q1, result |-> "value", entry |-> queued]

\* getNext that treats an empty queue as a mismatch
getNextThrowOnEmpty(q, type) ==
    IF q.queue = <<>>
    THEN [q |-> q, result |-> "throw", entry |-> NoEntry]
    ELSE LET queued == Head(q.queue)
             q1 == [q EXCEPT !.queue = Tail(@), !.used = Append(@, queued),
                             !.interactionCount = @ + 1]
         IN IF queued.type # type
            THEN [q |-> q1, result |-> "throw", entry |-> NoEntry]
            ELSE [q |-> q1, result |-> "value", entry |-> queued]

\* getNext of part_005: [q: the queue afterwards, result: "null" | "value" | "throw", entry]
getNext(q, type) ==
    IF q.queue = <<>>
    THEN [q |-> q, result |-> "null", entry |-> NoEntry]
    ELSE LET queued == Head(q.queue)
             q1 == [q EXCEPT !.queue = Tail(@), !.used = Append(@, queued),
                             !.interactionCount = @ + 1]
         IN IF queued.type # type
            THEN [q |-> q1, result |-> "throw", entry |-> NoEntry]
            ELSE [q |-> q1, result |-> "value", entry |-> queued]

\* getNext of runtime/UserInputQueue.ts: findIndex + splice
getNextV1(q, type) ==
    LET q1 == [q EXCEPT !.interactionCount = @ + 1]
        found == {i \in 1..Len(q.queue) : q.queue[i].type = type}
    IN IF found # {}
       THEN LET index == CHOOSE i \in found : \A j \in found : i <= j
            IN [q |-> [q1 EXCEPT !.queue = SubSeq(q.queue, 1, index - 1)
                                            \o SubSeq(q.queue, index + 1, Len(q.queue))],
                result |-> "value", entry |-> q.queue[index]]
       ELSE [q |-> q1, result |-> "undefined", entry |-> NoEntry]

hasMore(q) == Len(q.queue) > 0

(***************************************************************************)
(* The scripts of the model: up to MaxItems items joined by commas.        *)
(* `declared` is the entry the item declares; its absence (NoEntry) marks  *)
(* an item the grammar of the spec does not allow.                         *)
(***************************************************************************)
Item(text, declared) == [text |-> text, declared |-> declared]

Items ==
    { Item(W_select \o <<":", "1">>, Entry("select", 1, "number")),
      Item(<<" ">> \o W_select \o <<":", "2">>, Entry("select", 2, "number")),
      Item(W_input \o <<":", DQ, "a", ",", "b", DQ>>, Entry("input", <<"a", ",", "b">>, "string")),
      Item(W_input \o <<":", "h", "i">>, Entry("input", <<"h", "i">>, "string")),
      Item(W_input \o <<":", DQ, "h", " ", "w", DQ>>, Entry("input", <<"h", " ", "w">>, "string")),
      Item(W_input \o <<":", SQ, " ", "h", "i", SQ>>, Entry("input", <<" ", "h", "i">>, "string")),
      Item(W_toggle \o <<":", "Y", "e", "s">>, Entry("toggle", TRUE, "boolean")),
      Item(W_toggle \o <<":", "n", "o">>, Entry("toggle", FALSE, "boolean")),
      Item(W_confirm \o <<":", "y", "e", "s">>, Entry("confirm", W_yes, "string")),
      Item(W_confirm \o <<":", "h", "e", "l", "p">>, Entry("confirm", W_help, "string")),
      Item(W_confirm \o <<":", "m", "a", "y", "b", "e">>, NoEntry),
      Item(<<"s", "w", "i", "p", "e", ":", "1">>, NoEntry) }

ItemLists == UNION { [1..n -> Items] : n \in 0..MaxItems }

RECURSIVE join(_)
join(items) ==
    IF items = <<>> THEN <<>>
    ELSE IF Len(items) = 1 THEN items[1].text
    ELSE items[1].text \o <<",">> \o join(Tail(items))

\* items parseInputString of part_005 takes without throwing and without an entry
SilentItems ==
    { Item(<<"h", "i">>, NoEntry),
      Item(W_select \o <<":", "x">>, NoEntry) }

ParseScripts == UNION { [1..n -> Items \cup SilentItems] : n \in 0..MaxItems }

Types == {"select", "input", "toggle", "confirm"}
TypesV1 == Types \cup {"checkbox"}


\* what the last call on the queue did
NoCall == [call |-> "none", type |-> "", result |-> "", entry |-> NoEntry, before |-> <<>>]
Call(call, type, result, entry, before) ==
    [call |-> call, type |-> type, result |-> result, entry |-> entry, before |-> before]

inputString == join(script)

\* no UI primitive has run; main() is not part of the run
NoRun == [op |-> "none"]
NoArgs == [help |-> FALSE, inputs |-> FALSE, command |-> ""]
NoMain == [pc |-> "none", exitCode |-> -1, args |-> NoArgs, error |-> NoError, by |-> 0,
           op |-> 0, ops |-> 0]

QueueIdle ==
    /\ uiq = NewQueue
    /\ uiqV1 = NewQueueV1
    /\ lastNext = NoCall
    /\ lastNextV1 = NoCall
    /\ ui = NoRun
    /\ main = NoMain
    /\ inflight = <<>>

\* new UserInputQueue(inputString) / initUserInputQueue(inputString), part_005.
\* A constructor that throws leaves no object behind.
Construct ==
    /\ impl = "part_005"
    /\ uiq.state = "none"
    /\ LET q == constructQueue(inputString)
       IN /\ uiq' = IF q.state = "threw" THEN uiq ELSE q
          /\ lastNext' = Call("new", "", IF q.state = "threw" THEN "throw" ELSE "object",
                              NoEntry, <<>>)
    /\ UNCHANGED <<impl, script, uiqV1, lastNextV1, ui, main, inflight>>

\* queue.getNext(type), part_005
GetNext(type) ==
    /\ impl = "part_005"
    /\ uiq.state = "ok"
    /\ LET r == getNext(uiq, type)
       IN /\ uiq' = r.q
          /\ lastNext' = Call("getNext", type, r.result, r.entry, uiq.queue)
    /\ UNCHANGED <<impl, script, uiqV1, lastNextV1, ui, main, inflight>>

\* getNextSimulatedInput(type), part_005: the global queue is made on first use
GetNextSimulatedInput(type) ==
    /\ impl = "part_005"
    /\ LET made == IF uiq.state = "none" THEN constructQueue(inputString) ELSE uiq
       IN IF made.state = "threw"
          THEN /\ uiq' = uiq
               /\ lastNext' = Call("getNextSimulatedInput", type, "throw", NoEntry, <<>>)
          ELSE IF ~hasMore(made)
          THEN /\ uiq' = made
               /\ lastNext' = Call("getNextSimulatedInput", type, "null", NoEntry, made.queue)
          ELSE LET r == getNext(made, type)
               IN /\ uiq' = r.q
                  /\ lastNext' = Call("getNextSimulatedInput", type, r.result, r.entry,
                                      made.queue)
    /\ UNCHANGED <<impl, script, uiqV1, lastNextV1, ui, main, inflight>>

\* new UserInputQueue(inputString) / initUserInputQueue(inputString), runtime/UserInputQueue.ts
ConstructV1 ==
    /\ impl = "runtime"
    /\ uiqV1.state = "none"
    /\ LET q == constructQueueV1(inputString)
       IN /\ uiqV1' = IF q.state = "threw" THEN uiqV1 ELSE q
          /\ lastNextV1' = Call("new", "", IF q.state = "threw" THEN "throw" ELSE "object",
                                NoEntry, <<>>)
    /\ UNCHANGED <<impl, script, uiq, lastNext, ui, main, inflight>>

\* queue.getNext(type), runtime/UserInputQueue.ts
GetNextV1(type) ==
    /\ impl = "runtime"
    /\ uiqV1.state = "ok"
    /\ uiqV1.interactionCount < MaxCalls
    /\ LET r == getNextV1(uiqV1, type)
       IN /\ uiqV1' = r.q
          /\ lastNextV1' = Call("getNext", type, r.result, r.entry, uiqV1.queue)
    /\ UNCHANGED <<impl, script, uiq, lastNext, ui, main, inflight>>

NextQueue ==
    \/ Construct /\ UNCHANGED <<execVars, loggerVars>>
    \/ \E type \in Types : GetNext(type) /\ UNCHANGED <<execVars, loggerVars>>
    \/ \E type \in Types : GetNextSimulatedInput(type) /\ UNCHANGED <<execVars, loggerVars>>
    \/ ConstructV1 /\ UNCHANGED <<execVars, loggerVars>>
    \/ \E type \in TypesV1 : GetNextV1(type) /\ UNCHANGED <<execVars, loggerVars>>

(***************************************************************************)
(* The UI primitives that read the input queue of part_005.  A run of      *)
(* perform is one action; the answers a live prompt will get are `typed`   *)
(* (null = the prompt was cancelled), and a prompt that finds `typed`      *)
(* empty leaves the operation waiting in it ("prompting").                 *)
(***************************************************************************)
\* a string, and a boolean, as the data of an Outcome
JsString(v) ==
    [typeof |-> "string", truthy |-> v # <<>>, execute |-> "absent", name |-> "absent",
     id |-> 0, value |-> v]
JsBoolean(b) ==
    [typeof |-> "boolean", truthy |-> b, execute |-> "absent", name |-> "absent",
     id |-> 0, value |-> IF b THEN W_true ELSE <<"f", "a", "l", "s", "e">>]
\* the index of a select entry, as what was entered
JsIndex(i) ==
    [typeof |-> "number", truthy |-> i # 0, execute |-> "absent", name |-> "absent",
     id |-> 0, value |-> <<i>>]
IsNull(v) == v.typeof = "object" /\ ~v.truthy

\* getNextSimulatedInput(type) of part_005 as an operation calls it:
\* [q, result: "null" | "value" | "throw", entry, error]
getUserInputQueue(q) == IF q.state = "none" THEN constructQueue(inputString) ELSE q

\* what a primitive gets from queue.getNext(type), which returned or threw r
queueResult(r, made, type) ==
    [q |-> r.q, result |-> r.result, entry |-> r.entry,
     error |-> IF r.result = "throw"
               THEN JsError("Expected " \o type \o " input, but got "
                               \o Head(made.queue).type)
               ELSE NoError]

getNextSimulatedInputFrom(q, made, type) ==
    IF made.state = "threw"
    THEN [q |-> q, result |-> "throw", entry |-> NoEntry,
          error |-> JsError("Unknown input type")]
    ELSE IF ~hasMore(made)
    THEN [q |-> made, result |-> "null", entry |-> NoEntry, error |-> NoError]
    ELSE queueResult(getNext(made, type), made, type)

getNextSimulatedInput(q, type) ==
    getNextSimulatedInputFrom(q, getUserInputQueue(q), type)

\* the queue lookup of unifiedPrompt: getUserInputQueue(), then queue.getNext(inputType)
unifiedPromptFrom(q, made, inputType) ==
    IF made.state = "threw"
    THEN [q |-> q, result |-> "throw", entry |-> NoEntry,
          error |-> JsError("Unknown input type")]
    ELSE queueResult(getNext(made, inputType), made, inputType)

unifiedPrompt(q, inputType) ==
    unifiedPromptFrom(q, getUserInputQueue(q), inputType)

\* one read of an answer: by which operation, from the queue or from the live
\* prompt, what was entered, and what became of it
Read(by, from, entered, verdict) ==
    [by |-> by, from |-> from, entered |-> entered, verdict |-> verdict]
From(r) == IF r.result = "null" THEN "live" ELSE "queue"

\* how a run of perform ends: it returned `out`, or it waits in a live prompt;
\* n is the number of operations constructed so far
Returned(S, q, typed, out, tr, n) ==
    [kind |-> "returned", S |-> S, q |-> q, typed |-> typed, out |-> out, tr |-> tr, n |-> n]
Prompting(S, q, tr, n) ==
    [kind |-> "prompting", S |-> S, q |-> q, typed |-> <<>>, out |-> Success(JsUndefined),
     tr |-> tr, n |-> n]

\* catch (error) { return { success: false, error: error.message } }
Caught(error) == Failure(errorMessage(error), JsUndefined)

\* InputValidation; pattern and validator are not modelled
NoValidation == [present |-> FALSE, required |-> FALSE, minLength |-> 0, maxLength |-> 0,
                 numeric |-> FALSE]
Validation(required, minLength, maxLength, numeric) ==
    [present |-> TRUE, required |-> required, minLength |-> minLength,
     maxLength |-> maxLength, numeric |-> numeric]

\* InputTextOperation.validate: TRUE when it returns an error message
validate(value, v) ==
    /\ v.present
    /\ \/ v.required /\ value = <<>>
       \/ v.minLength # 0 /\ Len(value) < v.minLength
       \/ v.maxLength # 0 /\ Len(value) > v.maxLength
       \/ v.numeric /\ ~(value # <<>> /\ \A i \in 1..Len(value) : DigitValue(value[i]) >= 0)

\* a validate that accepts everything
validateNothing(value, v) == FALSE

\* InputTextOperation.performOperation (InputTextOp.performOp is the same code)
RECURSIVE InputText_performOperation(_, _, _, _, _, _, _)
\* InputTextOperation.performOperation once the queue has answered the prompt
InputText_entered(S, r, typed, defaultValue, v, tr, n) ==
    IF r.result = "throw"
       THEN Returned(S, r.q, typed, Caught(r.error),
                     Append(tr, Read("InputText", "queue", JsUndefined, "mismatch")), n)
       ELSE IF r.result = "null" /\ typed = <<>>
       THEN Prompting(S, r.q, tr, n)
       ELSE LET enteredValue == IF r.result = "value" THEN JsString(r.entry.value)
                                ELSE Head(typed)
                typed1 == IF r.result = "value" THEN typed ELSE Tail(typed)
                value == IF defaultValue.truthy
                         THEN IF enteredValue.truthy THEN enteredValue ELSE defaultValue
                         ELSE enteredValue
                rejected == ~IsNull(value) /\ validate(value.value, v)
                tr1 == Append(tr, Read("InputText", From(r), enteredValue,
                                       IF rejected THEN "rejected" ELSE "accepted"))
            IN IF rejected
               THEN InputText_performOperation(S, r.q, typed1, defaultValue, v, tr1, n)
               ELSE Returned(S, r.q, typed1, Success(value), tr1, n)

InputText_performOperation(S, q, typed, defaultValue, v, tr, n) ==
    InputText_entered(S, getNextSimulatedInput(q, "input"), typed, defaultValue, v, tr, n)

\* error.message.includes('cancelled'): none of the messages above does
includesCancelled(error) == FALSE

\* the label promptSelect offers for cancelling
CancelLabel == JsString(<<"C", "a", "n", "c", "e", "l">>)

\* a SelectOp that takes the index modulo the number of options
SelectOp_performOpWrapping(S, q, typed, options, allowCancel, n) ==
    LET r == getNextSimulatedInput(q, "select")
    IN IF r.result = "value"
       THEN Returned(S, r.q, typed, Success(JsString(options[(r.entry.value % Len(options)) + 1])),
                     <<Read("Select", "queue", JsIndex(r.entry.value), "accepted")>>, n)
       ELSE Prompting(S, r.q, <<>>, n)

\* SelectOp.performOp
\* SelectOp.performOp once the queue has answered the prompt
SelectOp_selected(S, r, typed, options, allowCancel, n) ==
    IF r.result = "throw"
       THEN Returned(S, r.q, typed,
                     IF includesCancelled(r.error) THEN Success(JsNull) ELSE Caught(r.error),
                     <<Read("Select", "queue", JsUndefined, "mismatch")>>, n)
       ELSE IF r.result = "value"
       THEN LET index == r.entry.value
            IN IF index >= 0 /\ index < Len(options)
               THEN Returned(S, r.q, typed, Success(JsString(options[index + 1])),
                             <<Read("Select", "queue", JsIndex(index), "accepted")>>, n)
               ELSE Returned(S, r.q, typed, Success(JsNull),
                             <<Read("Select", "queue", JsIndex(index), "cancelled")>>, n)
       ELSE IF typed = <<>> THEN Prompting(S, r.q, <<>>, n)
       ELSE LET selected == Head(typed)
            IN IF allowCancel /\ selected = CancelLabel
               THEN Returned(S, r.q, Tail(typed), Success(JsNull),
                             <<Read("Select", "live", selected, "cancelled")>>, n)
               ELSE Returned(S, r.q, Tail(typed), Success(selected),
                             <<Read("Select", "live", selected, "accepted")>>, n)

SelectOp_performOp(S, q, typed, options, allowCancel, n) ==
    SelectOp_selected(S, getNextSimulatedInput(q, "select"), typed, options, allowCancel, n)

\* an InputPasswordOp that accepts a password of any length
RECURSIVE InputPasswordOp_performOpAnyLength(_, _, _, _, _, _)
InputPasswordOp_performOpAnyLength(S, q, typed, confirmPassword, tr, n) ==
    LET r == getNextSimulatedInput(q, "input")
    IN IF r.result # "value" THEN Prompting(S, r.q, tr, n)
       ELSE LET c == getNextSimulatedInput(r.q, "input")
                password == JsString(r.entry.value)
                tr1 == Append(tr, Read("InputPassword", "queue", password, "password"))
            IN IF ~confirmPassword THEN Returned(S, r.q, typed, Success(password), tr1, n)
               ELSE IF c.result # "value" THEN Prompting(S, c.q, tr1, n)
               ELSE IF c.entry.value # r.entry.value
               THEN InputPasswordOp_performOpAnyLength(S, c.q, typed, confirmPassword,
                        Append(tr1, Read("InputPassword", "queue", JsString(c.entry.value),
                                         "mismatch")), n)
               ELSE Returned(S, c.q, typed, Success(password),
                        Append(tr1, Read("InputPassword", "queue", JsString(c.entry.value),
                                         "confirmed")), n)

\* InputPasswordOp.performOp (InputPasswordOperation.performOperation is the same code)
RECURSIVE InputPasswordOp_performOp(_, _, _, _, _, _)
\* InputPasswordOp.performOp from the confirmation prompt on
InputPasswordOp_confirmed(S, c, typed1, confirmPassword, password, tr1, n) ==
    IF c.result = "throw"
    THEN Returned(S, c.q, typed1, Caught(c.error),
                  Append(tr1, Read("InputPassword", "queue", JsUndefined, "mismatch")), n)
    ELSE IF c.result = "null" /\ typed1 = <<>>
    THEN Prompting(S, c.q, tr1, n)
    ELSE LET confirmation == IF c.result = "value" THEN JsString(c.entry.value)
                             ELSE Head(typed1)
             typed2 == IF c.result = "value" THEN typed1 ELSE Tail(typed1)
         IN IF IsNull(confirmation)
            THEN Returned(S, c.q, typed2, Success(JsNull),
                          Append(tr1, Read("InputPassword", From(c), confirmation,
                                           "cancelled")), n)
            ELSE IF confirmation # password
            THEN InputPasswordOp_performOp(S, c.q, typed2, confirmPassword,
                     Append(tr1, Read("InputPassword", From(c), confirmation, "differs")), n)
            ELSE Returned(S, c.q, typed2, Success(password),
                          Append(tr1, Read("InputPassword", From(c), confirmation,
                                           "confirmed")), n)

\* InputPasswordOp.performOp once the queue has answered the password prompt
InputPasswordOp_entered(S, r, typed, confirmPassword, tr, n) ==
    IF r.result = "throw"
       THEN Returned(S, r.q, typed, Caught(r.error),
                     Append(tr, Read("InputPassword", "queue", JsUndefined, "mismatch")), n)
       ELSE IF r.result = "null" /\ typed = <<>>
       THEN Prompting(S, r.q, tr, n)
       ELSE LET password == IF r.result = "value" THEN JsString(r.entry.value)
                            ELSE Head(typed)
                typed1 == IF r.result = "value" THEN typed ELSE Tail(typed)
            IN IF IsNull(password)
               THEN Returned(S, r.q, typed1, Success(JsNull),
                             Append(tr, Read("InputPassword", From(r), password, "cancelled")), n)
               ELSE IF Len(password.value) < 6
               THEN InputPasswordOp_performOp(S, r.q, typed1, confirmPassword,
                        Append(tr, Read("InputPassword", From(r), password, "short")), n)
               ELSE IF ~confirmPassword
               THEN Returned(S, r.q, typed1, Success(password),
                             Append(tr, Read("InputPassword", From(r), password, "password")), n)
               ELSE InputPasswordOp_confirmed(S, getNextSimulatedInput(r.q, "input"), typed1,
                        confirmPassword, password,
                        Append(tr, Read("InputPassword", From(r), password, "password")), n)
InputPasswordOp_performOp(S, q, typed, confirmPassword, tr, n) ==
    InputPasswordOp_entered(S, getNextSimulatedInput(q, "input"), typed, confirmPassword, tr, n)

\* a ShowInfoOperation that does not wait for an acknowledgement
ShowInfoOperation_performOperationNoWait(S, q, typed, n) ==
    Returned(S, q, typed, Success(JsUndefined), <<>>, n)

\* ShowInfoOperation.performOperation: display, then wait for the acknowledgement
\* ShowInfoOperation.performOperation once unifiedPrompt has looked at the queue
ShowInfoOperation_acknowledged(S, r, typed, n) ==
    IF r.result = "throw"
       THEN Returned(S, r.q, typed, Caught(r.error),
                     <<Read("ShowInfo", "queue", JsUndefined, "mismatch")>>, n)
       ELSE IF r.result = "value"
       THEN Returned(S, r.q, typed, Success(JsUndefined),
                     <<Read("ShowInfo", "queue", JsString(r.entry.value), "acknowledged")>>, n)
       ELSE IF typed = <<>> THEN Prompting(S, r.q, <<>>, n)
       ELSE Returned(S, r.q, Tail(typed), Success(JsUndefined),
                     <<Read("ShowInfo", "live", Head(typed), "acknowledged")>>, n)

ShowInfoOperation_performOperation(S, q, typed, n) ==
    ShowInfoOperation_acknowledged(S, unifiedPrompt(q, "confirm"), typed, n)

\* await new ShowInfoOp(...).run(): execute() around the perform above.
\* kind "threw" is a rejected run(), whose error the caller's try block sees.
ShowInfoOp_ended(E, q, typed, tr, n) ==
    [kind |-> IF E.kind = "rejected" THEN "threw" ELSE "returned", S |-> E.S,
     q |-> q, typed |-> typed, out |-> E.outcome, error |-> E.error, tr |-> tr, n |-> n + 1]
ShowInfoOp_performed(P, n) ==
    IF P.kind = "prompting" THEN P
    ELSE ShowInfoOp_ended(executeEnd(P.S, [threw |-> FALSE, outcome |-> P.out,
                                           error |-> NoError]),
                          P.q, P.typed, P.tr, n)
ShowInfoOp_begun(R0, q, typed, n) ==
    IF R0.kind # "running" THEN ShowInfoOp_ended(R0, q, typed, <<>>, n)
    ELSE ShowInfoOp_performed(ShowInfoOperation_performOperation(R0.S, q, typed, n + 1), n)
ShowInfoOp_run(S, q, typed, n) ==
    ShowInfoOp_begun(executeBegin(S, n + 1, FALSE), q, typed, n)

\* ConfirmOp.performOp: moreInfo is whether the option was given (a text)
RECURSIVE ConfirmOp_performOp(_, _, _, _, _, _)
\* ConfirmOp.performOp after `await new ShowInfoOp(...).run()` ended as C
ConfirmOp_informed(C, moreInfo, tr1) ==
    IF C.kind = "prompting" THEN Prompting(C.S, C.q, tr1 \o C.tr, C.n)
    ELSE IF C.kind = "threw"
    THEN Returned(C.S, C.q, C.typed, Caught(C.error), tr1 \o C.tr, C.n)
    ELSE ConfirmOp_performOp(C.S, C.q, C.typed, moreInfo, tr1 \o C.tr, C.n)

\* ConfirmOp.performOp once the queue has answered the prompt
ConfirmOp_answered(S, r, typed, moreInfo, tr, n) ==
    IF r.result = "throw"
       THEN Returned(S, r.q, typed, Caught(r.error),
                     Append(tr, Read("Confirm", "queue", JsUndefined, "mismatch")), n)
       ELSE IF r.result = "null" /\ typed = <<>>
       THEN Prompting(S, r.q, tr, n)
       ELSE LET selected == Head(typed)
                value == IF r.result = "value" THEN r.entry.value
                         ELSE IF IsNull(selected) THEN W_no
                         ELSE IF selected.value = W_help /\ ~moreInfo THEN W_no
                         ELSE selected.value
                typed1 == IF r.result = "value" THEN typed ELSE Tail(typed)
                response == IF value = W_yes THEN "yes"
                            ELSE IF value = W_help THEN "more_info"
                            ELSE "no"
                tr1 == Append(tr, Read("Confirm", From(r), JsString(value), response))
            IN IF response = "more_info" /\ moreInfo
               THEN ConfirmOp_informed(ShowInfoOp_run(S, r.q, typed1, n), moreInfo, tr1)
               ELSE Returned(S, r.q, typed1, Success(JsBoolean(response = "yes")), tr1, n)

ConfirmOp_performOp(S, q, typed, moreInfo, tr, n) ==
    ConfirmOp_answered(S, getNextSimulatedInput(q, "confirm"), typed, moreInfo, tr, n)

\* SelectOperation.performOperation (part_017): the answer comes through unifiedPrompt
\* SelectOperation.performOperation once unifiedPrompt has looked at the queue
SelectOperation_selected(S, r, typed, options, allowCancel, n) ==
    IF r.result = "throw"
       THEN Returned(S, r.q, typed,
                     IF includesCancelled(r.error) THEN Success(JsNull) ELSE Caught(r.error),
                     <<Read("Select", "queue", JsUndefined, "mismatch")>>, n)
       ELSE IF r.result = "value"
       THEN LET index == r.entry.value
            IN IF index >= 0 /\ index < Len(options)
               THEN Returned(S, r.q, typed, Success(JsString(options[index + 1])),
                             <<Read("Select", "queue", JsIndex(index), "accepted")>>, n)
               ELSE Returned(S, r.q, typed, Success(JsNull),
                             <<Read("Select", "queue", JsIndex(index), "cancelled")>>, n)
       ELSE IF typed = <<>> THEN Prompting(S, r.q, <<>>, n)
       ELSE LET selected == Head(typed)
            IN IF allowCancel /\ selected = CancelLabel
               THEN Returned(S, r.q, Tail(typed), Success(JsNull),
                             <<Read("Select", "live", selected, "cancelled")>>, n)
               ELSE Returned(S, r.q, Tail(typed), Success(selected),
                             <<Read("Select", "live", selected, "accepted")>>, n)

SelectOperation_performOperation(S, q, typed, options, allowCancel, n) ==
    SelectOperation_selected(S, unifiedPrompt(q, "select"), typed, options, allowCancel, n)

(***************************************************************************)
(* The runs of the model: one primitive, executed directly on an empty     *)
(* stack (await new X(...).execute()), against the global queue that       *)
(* initUserInputQueue made of the script.                                  *)
(***************************************************************************)
\* `ui` after a run: the operation and its configuration, the queue before and
\* after, the reads in order, and how perform ended
Run(op, cfg, typed, P) ==
    [op |-> op, cfg |-> cfg, before |-> uiq.queue, typed |-> typed, kind |-> P.kind,
     out |-> P.out, after |-> P.q.queue, tr |-> P.tr, left |-> P.typed, ops |-> P.n]

UiReady ==
    /\ impl = "part_005"
    /\ ui = NoRun
    /\ uiq.state = "ok"
    /\ chain.status = "idle"
    /\ operationStack = <<>>
    /\ operationNumber = 0

\* execute() of a primitive up to the call of its perform
UiId == operationNumber + 1
UiBegun == executeBegin(State(<<>>), UiId, FALSE)

\* execute() of a primitive whose perform did Pd: all of it, or up to the live
\* prompt in which it waits
ExecuteUI(op, cfg, typed, Pd) ==
    /\ UiReady
    /\ UiBegun.kind = "running"
    /\ \E P \in {Pd} :
         LET id == UiId
             performed == [threw |-> FALSE, outcome |-> P.out, error |-> NoError]
         IN /\ IF P.kind = "prompting"
               THEN Commit(P.S) /\ lastSettle' = NoSettle
               ELSE CommitSettled(executeEnd(P.S, performed), P.S.st[1], performed)
            /\ uiq' = P.q
            /\ ui' = Run(op, cfg, typed, P)
            /\ operationNumber' = P.n
            /\ started' = Append(started, [id |-> id, depth |-> 0, own |-> FALSE,
                                          ancestors |-> <<>>, fresh |-> TRUE])
                              \o [i \in 1..(P.n - id) |->
                                      [id |-> id + i, depth |-> 1, own |-> FALSE,
                                       ancestors |-> <<id>>, fresh |-> TRUE]]
    /\ UNCHANGED <<enabledLevels, performLogs, chain, fatalLog>>
    /\ UNCHANGED <<impl, script, uiqV1, lastNext, lastNextV1, main, inflight>>

NoConfig == [class |-> "", defaultValue |-> JsUndefined, validation |-> NoValidation,
             confirmPassword |-> FALSE, moreInfo |-> FALSE, options |-> <<>>,
             allowCancel |-> FALSE]

RunInputText(defaultValue, v, typed) ==
    ExecuteUI("InputText", [NoConfig EXCEPT !.defaultValue = defaultValue, !.validation = v],
              typed,
              InputText_performOperation(UiBegun.S, uiq, typed, defaultValue, v, <<>>, UiId))

\* class: SelectOp (Ops/ui/primitives/SelectOp.ts) or SelectOperation (part_017)
RunSelect(class, options, allowCancel, typed) ==
    ExecuteUI("Select", [NoConfig EXCEPT !.class = class, !.options = options,
                                         !.allowCancel = allowCancel],
              typed,
              IF class = "SelectOp"
              THEN SelectOp_performOp(UiBegun.S, uiq, typed, options, allowCancel, UiId)
              ELSE SelectOperation_performOperation(UiBegun.S, uiq, typed, options,
                                                    allowCancel, UiId))

RunInputPassword(confirmPassword, typed) ==
    ExecuteUI("InputPassword", [NoConfig EXCEPT !.confirmPassword = confirmPassword],
              typed,
              InputPasswordOp_performOp(UiBegun.S, uiq, typed, confirmPassword, <<>>, UiId))

RunConfirm(moreInfo, typed) ==
    ExecuteUI("Confirm", [NoConfig EXCEPT !.class = "ConfirmOp", !.moreInfo = moreInfo],
              typed,
              ConfirmOp_performOp(UiBegun.S, uiq, typed, moreInfo, <<>>, UiId))

\* the scripts of the runs: up to MaxUiItems well-formed items
W_ab == <<"a", "b">>
W_secret == <<"s", "e", "c", "r", "e", "t">>
W_hunter == <<"h", "u", "n", "t", "e", "r">>
UiItems ==
    { Item(W_input \o <<":">> \o W_ab, Entry("input", W_ab, "string")),
      Item(W_input \o <<":">> \o W_secret, Entry("input", W_secret, "string")),
      Item(W_input \o <<":">> \o W_hunter, Entry("input", W_hunter, "string")),
      Item(W_select \o <<":", "0">>, Entry("select", 0, "number")),
      Item(W_select \o <<":", "2">>, Entry("select", 2, "number")),
      Item(W_select \o <<":", "-", "1">>, Entry("select", -1, "number")),
      Item(W_confirm \o <<":">> \o W_yes, Entry("confirm", W_yes, "string")),
      Item(W_confirm \o <<":">> \o W_no, Entry("confirm", W_no, "string")),
      Item(W_confirm \o <<":">> \o W_help, Entry("confirm", W_help, "string")) }
\* the scripts a primitive reading `type` entries runs against: the items of that
\* type, and one item of another type
UiItemsOf(type) ==
    {it \in UiItems :
        \/ it.declared.type = type
        \/ it.declared = IF type = "input" THEN Entry("select", 0, "number")
                         ELSE Entry("input", W_ab, "string")}
UiScripts(type) == UNION { [1..n -> UiItemsOf(type)] : n \in 0..MaxUiItems }

\* what the user will answer to the live prompts of a text input
TypedTexts ==
    { <<>>, <<JsNull>>, <<JsString(W_ab), JsNull>>,
      <<JsString(W_secret), JsString(W_secret)>> }
\* ... of a selection among SelectOptions
SelectOptions == <<W_ab, W_secret>>
TypedSelections == { <<>>, <<JsString(W_ab)>>, <<CancelLabel>> }
\* ... of a confirmation (and of the info display: any answer is the Enter key)
TypedConfirmations ==
    { <<>>, <<JsString(W_yes)>>, <<JsString(W_no)>>,
      <<JsString(W_help), JsNull, JsString(W_yes)>> }
DefaultValues == {JsUndefined, JsString(W_ab)}
Validations == {NoValidation, Validation(TRUE, 3, 8, FALSE)}

(***************************************************************************)
(* execute() calls that performOperation starts without awaiting them, as  *)
(* in Promise.all([a.execute(), b.execute()]).  execute() pushes the       *)
(* instance at once and goes on after its first await, when the caller has *)
(* stopped running; BaseOperation.parent and the pop of the finally block  *)
(* look at the stack as it is at that moment.  inflight keeps the instance *)
(* of every such call: it may be on the stack at any place, or off it.     *)
(***************************************************************************)
\* the stack as the code running for `frame` sees it: BaseOperation.parent is the
\* second entry from the top of the stack, `this` is the instance
View(st, frame) == IF Len(st) > 1 THEN <<st[Len(st) - 1], frame>> ELSE <<frame>>

\* the fields of the instance, wherever it is on the stack
WriteBack(st, frame) == [k \in 1..Len(st) |-> IF st[k].id = frame.id THEN frame ELSE st[k]]

\* BaseOperation.operationStack.pop()
Pop(st) == IF st = <<>> THEN st ELSE SubSeq(st, 1, Len(st) - 1)

\* every execute() call started without await has settled
Quiet == \A i \in 1..Len(inflight) : inflight[i].phase = "settled"

\* the operation whose performOperation starts the calls
Starter ==
    IF Quiet THEN Top.id
    ELSE inflight[CHOOSE i \in 1..Len(inflight) : inflight[i].phase # "settled"].by

\* new Child(...).execute() without await: push, handleParentLoggerSuspension up to
\* the await of its result
StartUnawaited ==
    /\ InPerform
    /\ operationNumber < MaxOps
    /\ Len(inflight) < MaxUnawaited
    /\ Starter \in {operationStack[k].id : k \in 1..Len(operationStack)}
    /\ LET id == operationNumber + 1
           S0 == State(<<>>)
           S1 == [S0 EXCEPT !.st = Append(@, NewFrame(id, FALSE, Ids(operationStack)))]
           S2 == handleParentLoggerSuspension(S1)
       IN /\ ~Threw(S2)
          /\ Commit(S2)
          /\ operationNumber' = id
          /\ started' = Append(started, [id |-> id, depth |-> Len(operationStack), own |-> FALSE,
                                        ancestors |-> Ids(operationStack), fresh |-> TRUE])
          /\ inflight' = Append(inflight,
                                [id |-> id, frame |-> S2.st[Len(S2.st)], phase |-> "pushed",
                                 by |-> Starter,
                                 parentSeen |-> IF parent(S1) = 0 THEN 0 ELSE S1.st[parent(S1)].id,
                                 topAtPerform |-> 0, removed |-> 0, kind |-> "none"])
    /\ lastSettle' = NoSettle
    /\ UNCHANGED <<enabledLevels, performLogs, chain, fatalLog>>
    /\ UNCHANGED <<impl, script, uiq, uiqV1, lastNext, lastNextV1, ui, main>>

\* execute() of inflight[i] from its try/catch to its settlement, on the stack as it
\* is now: the finally block pops whatever is on top
SettleUnawaited(i, R, performed) ==
    LET c == inflight[i]
        st == Pop(WriteBack(operationStack, R.frame))
        R1 == [R EXCEPT !.S = [R.S EXCEPT !.st = st]]
    IN /\ Commit(R1.S)
       /\ lastSettle' = Settlement(R1, c.frame, performed)
       /\ inflight' = [inflight EXCEPT ![i].frame = R.frame, ![i].phase = "settled",
                                       ![i].removed = IF operationStack = <<>> THEN 0 ELSE Top.id,
                                       ![i].kind = R.kind]

\* execute() of inflight[i] after its first await: the "Starting operation" entry,
\* then the call of performOperation
ContinueUnawaited(i) ==
    /\ inflight[i].phase = "pushed"
    /\ LET c == inflight[i]
           S0 == State(<<>>)
           S1 == [S0 EXCEPT !.st = View(operationStack, c.frame)]
           S3 == loggerLog(S1, "DEBUG", "Starting operation")
           me == S3.st[Len(S3.st)]
       IN IF Threw(S3)
          THEN SettleUnawaited(i, finallyBlock(catchBlock(S3, S3.err)), NotPerformed)
          ELSE /\ Commit([S3 EXCEPT !.st = WriteBack(operationStack,
                                                     [me EXCEPT !.performCalls = @ + 1])])
               /\ lastSettle' = NoSettle
               /\ inflight' = [inflight EXCEPT ![i].frame = [me EXCEPT !.performCalls = @ + 1],
                                               ![i].phase = "perform",
                                               ![i].topAtPerform = Top.id]
    /\ UNCHANGED <<enabledLevels, operationNumber, performLogs, started, chain, fatalLog>>
    /\ UNCHANGED <<impl, script, uiq, uiqV1, lastNext, lastNextV1, ui, main>>

\* performOperation of inflight[i] returns or throws: the rest of its execute()
endUnawaited(i, performed) ==
    /\ inflight[i].phase = "perform"
    /\ LET c == inflight[i]
           S0 == State(<<>>)
           S1 == [S0 EXCEPT !.st = View(operationStack, c.frame)]
       IN SettleUnawaited(i, executeEnd(S1, performed), performed)
    /\ UNCHANGED <<enabledLevels, operationNumber, performLogs, started, chain, fatalLog>>
    /\ UNCHANGED <<impl, script, uiq, uiqV1, lastNext, lastNextV1, ui, main>>

\* return result;  in the performOperation of inflight[i]
ReturnUnawaited(i, outcome) ==
    endUnawaited(i, [threw |-> FALSE, outcome |-> outcome, error |-> NoError])

\* throw e;  in the performOperation of inflight[i]
ThrowUnawaited(i, e) ==
    endUnawaited(i, [threw |-> TRUE, outcome |-> Success(JsUndefined), error |-> e])

(***************************************************************************)
(* main() and the top level of the program (src/src/main.ts), with the     *)
(* two operations of the main menu that end the process themselves.        *)
(* main.pc is the await main() is suspended at; main.by is the operation   *)
(* whose performOp called process.exit, 0 when main or the top level did.  *)
(***************************************************************************)
MainArgs == [help : BOOLEAN, inputs : BOOLEAN, command : {"", "bench", "compare", "unknown"}]
MainScripts == {s \in ItemLists : Len(s) <= 1}
MainOutcomes == {Success(JsUndefined), Failure("business failure", JsUndefined)}

\* Deno.exit(code) / process.exit(code)
Exit(code, error, by) ==
    [main EXCEPT !.pc = "exited", !.exitCode = code, !.error = error, !.by = by]

\* the state of OpStack.run before its first call
IdleChain == [status |-> "idle", depth |-> 0, invoked |-> <<>>, results |-> <<>>,
              error |-> NoError]

MainRunning == main.pc \in {"command", "menu", "chain"}

\* main() from the parsed arguments to its first await: help, or the simulated inputs
MainStart ==
    /\ main.pc = "start"
    /\ IF main.args.help
       THEN /\ main' = Exit(0, NoError, 0)
            /\ exited' = TRUE
            /\ UNCHANGED <<uiqV1, lastNextV1>>
       ELSE IF main.args.inputs
       THEN LET q == constructQueueV1(inputString)
            IN /\ uiqV1' = IF q.state = "threw" THEN uiqV1 ELSE q
               /\ lastNextV1' = Call("new", "", IF q.state = "threw" THEN "throw" ELSE "object",
                                     NoEntry, <<>>)
               /\ main' = IF q.state = "threw"
                          THEN [main EXCEPT !.pc = "catch",
                                            !.error = JsError("UserInputQueue: Invalid input type")]
                          ELSE [main EXCEPT !.pc = "dispatch"]
               /\ UNCHANGED exited
       ELSE /\ main' = [main EXCEPT !.pc = "dispatch"]
            /\ UNCHANGED <<uiqV1, lastNextV1, exited>>
    /\ UNCHANGED <<impl, script, uiq, lastNext, ui, inflight>>
    /\ UNCHANGED <<writes, handlers, lastLog, metadata, resumes, formatter>>
    /\ UNCHANGED execVars

\* await OpStack.run(Op) for the command `bench` or `compare`
MainCommand ==
    /\ main.pc = "dispatch"
    /\ main.args.command \in {"bench", "compare"}
    /\ ExecuteChain(<<>>)
    /\ main' = [main EXCEPT !.pc = "command", !.op = operationNumber + 1]
    /\ UNCHANGED <<impl, script, uiq, uiqV1, lastNext, lastNextV1, ui, inflight>>
    /\ UNCHANGED loggerVars

\* OpStack.run(Op) returned: Deno.exit(0)
MainCommandDone ==
    /\ main.pc = "command"
    /\ chain.status = "completed"
    /\ main' = Exit(0, NoError, 0)
    /\ exited' = TRUE
    /\ UNCHANGED <<impl, script, uiq, uiqV1, lastNext, lastNextV1, ui, inflight>>
    /\ UNCHANGED <<writes, handlers, lastLog, metadata, resumes, formatter>>
    /\ UNCHANGED execVars

\* the menu loop: const menuResult = await new MainMenuOp().run()
MainMenu ==
    /\ \/ main.pc = "dispatch" /\ main.args.command \notin {"bench", "compare"}
       \/ main.pc = "loop"
    /\ operationStack = <<>>
    /\ operationNumber < MaxOps
    /\ LET id == operationNumber + 1
           R == executeBegin(State(<<>>), id, FALSE)
       IN /\ CommitBegun(R, id, <<>>)
          /\ operationNumber' = id
          /\ started' = Append(started, [id |-> id, depth |-> 0, own |-> FALSE,
                                        ancestors |-> <<>>, fresh |-> TRUE])
          /\ main' = [main EXCEPT !.pc = "menu", !.op = id]
    /\ UNCHANGED <<enabledLevels, performLogs, chain, fatalLog>>
    /\ UNCHANGED <<impl, script, uiq, uiqV1, lastNext, lastNextV1, ui, inflight>>
    /\ UNCHANGED loggerVars

\* menuOp.run() has settled
MenuSettled ==
    /\ main.pc = "menu"
    /\ operationStack = <<>>
    /\ lastSettle.op = main.op

\* if (!menuResult.success) { await Logger.error(...); console.error(...); continue; }
MainMenuFailed ==
    /\ MenuSettled
    /\ lastSettle.kind = "resolved"
    /\ ~lastSettle.outcome.success
    /\ main' = [main EXCEPT !.pc = "loop"]
    /\ fatalLog' = Append(fatalLog, [logged |-> shouldLog("ERROR"),
                                     message |-> "FATAL: Menu Op failed",
                                     printed |-> TRUE,
                                     error |-> JsError(lastSettle.outcome.error)])
    /\ UNCHANGED <<enabledLevels, operationStack, loggers, activeLoggers, artifacts,
                   consoleLines, clock, operationNumber, writeFailures, performLogs,
                   started, lastSettle, chain>>
    /\ UNCHANGED <<impl, script, uiq, uiqV1, lastNext, lastNextV1, ui, inflight>>
    /\ UNCHANGED loggerVars

\* if (!menuResult.data) break;  main() returns and the process ends with code 0
MainMenuBreak ==
    /\ MenuSettled
    /\ lastSettle.kind = "resolved"
    /\ lastSettle.outcome.success
    /\ ~lastSettle.outcome.data.truthy
    /\ main' = Exit(0, NoError, 0)
    /\ exited' = TRUE
    /\ UNCHANGED <<impl, script, uiq, uiqV1, lastNext, lastNextV1, ui, inflight>>
    /\ UNCHANGED <<writes, handlers, lastLog, metadata, resumes, formatter>>
    /\ UNCHANGED execVars

\* await OpStack.run(menuResult.data)
MainMenuRun ==
    /\ MenuSettled
    /\ lastSettle.kind = "resolved"
    /\ lastSettle.outcome.success
    /\ lastSettle.outcome.data.truthy
    /\ isOperation(lastSettle.outcome.data)
    /\ LET id == lastSettle.outcome.data.id
           R == executeBegin(State(<<>>), id, FALSE)
       IN /\ CommitBegun(R, id, <<>>)
          /\ started' = Append(started, [id |-> id, depth |-> 0, own |-> FALSE,
                                        ancestors |-> <<>>, fresh |-> TRUE])
          /\ chain' = [IdleChain EXCEPT !.status = "running", !.depth = 1, !.invoked = <<id>>]
          /\ main' = [main EXCEPT !.pc = "chain", !.op = id, !.ops = operationNumber]
    /\ UNCHANGED <<enabledLevels, operationNumber, performLogs, fatalLog>>
    /\ UNCHANGED <<impl, script, uiq, uiqV1, lastNext, lastNextV1, ui, inflight>>
    /\ UNCHANGED loggerVars

\* OpStack.run(menuResult.data) returned: loop back to show the menu again
MainMenuAgain ==
    /\ main.pc = "chain"
    /\ chain.status = "completed"
    /\ main' = [main EXCEPT !.pc = "loop"]
    /\ chain' = IdleChain
    /\ UNCHANGED <<enabledLevels, operationStack, loggers, activeLoggers, artifacts,
                   consoleLines, clock, operationNumber, writeFailures, performLogs,
                   started, lastSettle, fatalLog>>
    /\ UNCHANGED <<impl, script, uiq, uiqV1, lastNext, lastNextV1, ui, inflight>>
    /\ UNCHANGED loggerVars

\* an exception leaves main(): OpStack.run rethrew, or menuOp.run() rejected
MainThrows ==
    /\ \/ main.pc \in {"command", "chain"} /\ chain.status = "rejected"
       \/ MenuSettled /\ lastSettle.kind = "rejected"
    /\ main' = [main EXCEPT !.pc = "catch",
                            !.error = IF main.pc = "menu" THEN lastSettle.error
                                      ELSE chain.error]
    /\ UNCHANGED <<impl, script, uiq, uiqV1, lastNext, lastNextV1, ui, inflight>>
    /\ UNCHANGED loggerVars
    /\ UNCHANGED execVars

\* the top level: catch (error) { await Logger.error('Fatal error', error);
\* console.error(...); Deno.exit(1); }
MainCatch ==
    /\ main.pc = "catch"
    /\ main' = Exit(1, main.error, 0)
    /\ exited' = TRUE
    /\ fatalLog' = Append(fatalLog, [logged |-> shouldLog("ERROR"), message |-> "Fatal error",
                                     printed |-> TRUE, error |-> main.error])
    /\ UNCHANGED <<enabledLevels, operationStack, loggers, activeLoggers, artifacts,
                   consoleLines, clock, operationNumber, writeFailures, performLogs,
                   started, lastSettle, chain>>
    /\ UNCHANGED <<impl, script, uiq, uiqV1, lastNext, lastNextV1, ui, inflight>>
    /\ UNCHANGED <<writes, handlers, lastLog, metadata, resumes, formatter>>

\* the operation the main menu handed to OpStack.run is inside its performOp and has
\* done nothing yet
AtExitOperation ==
    /\ main.pc = "chain"
    /\ Len(operationStack) = 1
    /\ Top.id = main.op
    /\ operationNumber = main.ops
    /\ ~Top.finalizedOwn

\* ExitNormally.performOp: process.exit(0)
ExitNormally_performOp ==
    /\ AtExitOperation
    /\ main' = Exit(0, NoError, Top.id)
    /\ exited' = TRUE
    /\ UNCHANGED <<impl, script, uiq, uiqV1, lastNext, lastNextV1, ui, inflight>>
    /\ UNCHANGED <<writes, handlers, lastLog, metadata, resumes, formatter>>
    /\ UNCHANGED execVars

\* DisplayFatalErrorAndExit.performOp: this.logger.error twice, console.error twice,
\* process.exit(1)
DisplayFatalErrorAndExit_performOp ==
    /\ AtExitOperation
    /\ LET S1 == loggerLog(State(<<>>), "ERROR", "Fatal error occurred")
           S2 == loggerLog(S1, "ERROR", "error")
       IN /\ S1.err = NoError
          /\ S2.err = NoError
          /\ Commit(S2)
    /\ main' = Exit(1, NoError, Top.id)
    /\ exited' = TRUE
    /\ UNCHANGED <<enabledLevels, operationNumber, performLogs, started, lastSettle, chain,
                   fatalLog>>
    /\ UNCHANGED <<impl, script, uiq, uiqV1, lastNext, lastNextV1, ui, inflight>>
    /\ UNCHANGED <<writes, handlers, lastLog, metadata, resumes, formatter>>

(***************************************************************************)
(* formatter.ts: generateLogFilename and its counters.  millisecondCounters *)
(* is a Map, kept here as the sequence of its [key, counter] pairs in       *)
(* insertion order; a name is kept as the fields its template joins.        *)
(***************************************************************************)
LogEntries == [timestamp : 1..MaxTimestamps, level : {"INFO"}, message : {"op"}]
PartNumbers == {0, 2}   \* partNumber left out, or 2

\* millisecondCounters.get(key) || 0
counterOf(m, key) ==
    IF \E i \in 1..Len(m) : m[i].key = key
    THEN (CHOOSE e \in {m[i] : i \in 1..Len(m)} : e.key = key).counter
    ELSE 0

\* millisecondCounters.set(key, counter): an existing key keeps its place
mapSet(m, key, counter) ==
    IF \E i \in 1..Len(m) : m[i].key = key
    THEN [i \in 1..Len(m) |-> IF m[i].key = key THEN [m[i] EXCEPT !.counter = counter]
                              ELSE m[i]]
    ELSE Append(m, [key |-> key, counter |-> counter])

\* if (millisecondCounters.size > 1000) delete the first size - 900 keys
trimCounters(m) ==
    IF Len(m) > TrimAbove THEN SubSeq(m, Len(m) - TrimKeeps + 1, Len(m)) ELSE m

\* generateLogFilename(entry, partNumber): the counters after the call and the name
generateLogFilename(m, entry, partNumber) ==
    LET timestampBase == entry.timestamp
        counter == counterOf(m, timestampBase) + 1
    IN [millisecondCounters |-> trimCounters(mapSet(m, timestampBase, counter)),
        name |-> [timestampBase |-> timestampBase, counter |-> counter,
                  level |-> entry.level, description |-> entry.message,
                  partSuffix |-> IF partNumber > 1 THEN partNumber ELSE 0]]

GenerateLogFilename(entry, partNumber) ==
    /\ Len(formatter.names) < MaxFilenames
    /\ LET r == generateLogFilename(formatter.millisecondCounters, entry, partNumber)
       IN formatter' = [millisecondCounters |-> r.millisecondCounters,
                        names |-> Append(formatter.names, r.name)]
    /\ UNCHANGED <<writes, handlers, exited, lastLog, metadata, resumes>>
    /\ UNCHANGED <<execVars, queueVars>>

NextFilename ==
    \E entry \in LogEntries, partNumber \in PartNumbers : GenerateLogFilename(entry, partNumber)

\* the operation engine: no queue in play
Init ==
    /\ enabledLevels \in {MULTI_LOG_LEVEL_DEFAULT, MULTI_LOG_LEVEL_VERBOSE}
    /\ InitExec
    /\ impl = "part_005"
    /\ script = <<>>
    /\ QueueIdle
    /\ LoggerIdle

\* the input queue: one of the two classes, one script, no operation running
InitQueue ==
    /\ enabledLevels = MULTI_LOG_LEVEL_DEFAULT
    /\ InitExec
    /\ impl \in {"part_005", "runtime"}
    /\ script \in ItemLists
    /\ QueueIdle
    /\ LoggerIdle

\* parseInputString of part_005 on scripts that may also hold an item without a colon
\* or a select item whose value is no integer
InitParse ==
    /\ enabledLevels = MULTI_LOG_LEVEL_DEFAULT
    /\ InitExec
    /\ impl = "part_005"
    /\ script \in ParseScripts
    /\ QueueIdle
    /\ LoggerIdle

NextParse ==
    \/ Construct /\ UNCHANGED <<execVars, loggerVars>>
    \/ \E type \in Types : GetNext(type) /\ UNCHANGED <<execVars, loggerVars>>

\* Logger objects: no operation running, no queue in play
InitLogger ==
    /\ enabledLevels \in {MULTI_LOG_LEVEL_DEFAULT, MULTI_LOG_LEVEL_VERBOSE}
    /\ InitExec
    /\ impl = "part_005"
    /\ script = <<>>
    /\ QueueIdle
    /\ LoggerIdle

\* a UI primitive against a script of entries of one type: initUserInputQueue has
\* not been called yet
InitUIOf(type) ==
    /\ enabledLevels = MULTI_LOG_LEVEL_DEFAULT
    /\ InitExec
    /\ impl = "part_005"
    /\ script \in UiScripts(type)
    /\ QueueIdle
    /\ LoggerIdle

InitInputText == InitUIOf("input")
InitSelect == InitUIOf("select")
InitInputPassword == InitUIOf("input")
InitConfirm == InitUIOf("confirm")

NextInputText ==
    \/ Construct /\ UNCHANGED <<execVars, loggerVars>>
    \/ \E d \in DefaultValues, v \in Validations, typed \in TypedTexts :
            RunInputText(d, v, typed) /\ UNCHANGED loggerVars

NextSelect ==
    \/ Construct /\ UNCHANGED <<execVars, loggerVars>>
    \/ \E class \in {"SelectOp", "SelectOperation"}, allowCancel \in BOOLEAN,
          typed \in TypedSelections :
            RunSelect(class, SelectOptions, allowCancel, typed) /\ UNCHANGED loggerVars

NextInputPassword ==
    \/ Construct /\ UNCHANGED <<execVars, loggerVars>>
    \/ \E c \in BOOLEAN, typed \in TypedTexts :
            RunInputPassword(c, typed) /\ UNCHANGED loggerVars

NextConfirm ==
    \/ Construct /\ UNCHANGED <<execVars, loggerVars>>
    \/ \E m \in BOOLEAN, typed \in TypedConfirmations :
            RunConfirm(m, typed) /\ UNCHANGED loggerVars

\* main() is about to run: the arguments are parsed, Logger.initialize() is done
InitMain ==
    /\ enabledLevels \in {MULTI_LOG_LEVEL_DEFAULT, MULTI_LOG_LEVEL_VERBOSE}
    /\ InitExec
    /\ impl = "runtime"
    /\ script \in MainScripts
    /\ uiq = NewQueue
    /\ uiqV1 = NewQueueV1
    /\ lastNext = NoCall
    /\ lastNextV1 = NoCall
    /\ ui = NoRun
    /\ main \in {[NoMain EXCEPT !.pc = "start", !.args = a] : a \in MainArgs}
    /\ inflight = <<>>
    /\ LoggerIdle

NextMain ==
    \/ MainStart
    \/ MainCommand
    \/ MainCommandDone
    \/ MainMenu
    \/ MainMenuFailed
    \/ MainMenuBreak
    \/ MainMenuRun
    \/ MainMenuAgain
    \/ MainThrows
    \/ MainCatch
    \/ ExitNormally_performOp
    \/ DisplayFatalErrorAndExit_performOp
    \/ MainRunning /\ PerformFinalizeOwnLogger(<<>>) /\ UNCHANGED <<queueVars, loggerVars>>
    \/ \E own \in BOOLEAN :
            MainRunning /\ Len(operationStack) < MaxDepth /\ PerformChild(own, <<>>)
                /\ UNCHANGED <<queueVars, loggerVars>>
    \/ \E o \in MainOutcomes :
            MainRunning /\ PerformReturn(o, <<>>) /\ UNCHANGED <<queueVars, loggerVars>>
    \/ MainRunning /\ PerformReturnOperation(<<>>) /\ UNCHANGED <<queueVars, loggerVars>>
    \/ \E e \in {JsError("boom")} :
            MainRunning /\ PerformThrow(e, <<>>) /\ UNCHANGED <<queueVars, loggerVars>>
    \/ MainRunning /\ ChainContinue(<<>>) /\ UNCHANGED <<queueVars, loggerVars>>
    \/ MainRunning /\ ChainComplete /\ UNCHANGED <<queueVars, loggerVars>>
    \/ MainRunning /\ ChainCatch /\ UNCHANGED <<queueVars, loggerVars>>

Next ==
    \/ \E level \in PerformLevels : PerformLog(level) /\ UNCHANGED <<queueVars, loggerVars>>
    \/ \E io \in IoChoices : PerformFinalizeOwnLogger(io) /\ UNCHANGED <<queueVars, loggerVars>>
    \/ \E own \in BOOLEAN, io \in IoChoices :
            Len(operationStack) < MaxDepth /\ PerformChild(own, io)
                /\ UNCHANGED <<queueVars, loggerVars>>
    \/ \E o \in Outcomes, io \in IoChoices : PerformReturn(o, io) /\ UNCHANGED <<queueVars, loggerVars>>
    \/ \E io \in IoChoices : PerformReturnOperation(io) /\ UNCHANGED <<queueVars, loggerVars>>
    \/ \E e \in ThrownValues \cup {FinalizedError, WriteError}, io \in IoChoices :
            PerformThrow(e, io) /\ UNCHANGED <<queueVars, loggerVars>>
    \/ \E io \in IoChoices : ExecuteChain(io) /\ UNCHANGED <<queueVars, loggerVars>>
    \/ \E io \in IoChoices : ChainContinue(io) /\ UNCHANGED <<queueVars, loggerVars>>
    \/ ChainComplete /\ UNCHANGED <<queueVars, loggerVars>>
    \/ ChainCatch /\ UNCHANGED <<queueVars, loggerVars>>

\* operations nested one level deeper, executed directly: every file write
\* succeeds, no chain
NestOutcomes == {Success(JsUndefined), Failure("business failure", JsUndefined)}

NextNest ==
    \/ Execute /\ UNCHANGED <<queueVars, loggerVars>>
    \/ \E level \in PerformLevels : PerformLog(level) /\ UNCHANGED <<queueVars, loggerVars>>
    \/ PerformFinalizeOwnLogger(<<>>) /\ UNCHANGED <<queueVars, loggerVars>>
    \/ \E own \in BOOLEAN :
            Len(operationStack) <= MaxDepth /\ PerformChild(own, <<>>)
                /\ UNCHANGED <<queueVars, loggerVars>>
    \/ \E o \in NestOutcomes : PerformReturn(o, <<>>) /\ UNCHANGED <<queueVars, loggerVars>>
    \/ \E e \in {JsError("boom"), FinalizedError} :
            PerformThrow(e, <<>>) /\ UNCHANGED <<queueVars, loggerVars>>

\* operations whose performOperation starts execute() calls without awaiting them
NextOverlap ==
    \/ Execute /\ UNCHANGED <<queueVars, loggerVars>>
    \/ \E level \in PerformLevels :
            Quiet /\ PerformLog(level) /\ UNCHANGED <<queueVars, loggerVars>>
    \/ \E own \in BOOLEAN :
            Quiet /\ Len(operationStack) < MaxDepth /\ PerformChild(own, <<>>)
                /\ UNCHANGED <<queueVars, loggerVars>>
    \/ \E o \in NestOutcomes :
            Quiet /\ PerformReturn(o, <<>>) /\ UNCHANGED <<queueVars, loggerVars>>
    \/ Quiet /\ PerformThrow(JsError("boom"), <<>>) /\ UNCHANGED <<queueVars, loggerVars>>
    \/ StartUnawaited /\ UNCHANGED loggerVars
    \/ \E i \in 1..Len(inflight) : ContinueUnawaited(i) /\ UNCHANGED loggerVars
    \/ \E i \in 1..Len(inflight), o \in NestOutcomes :
            ReturnUnawaited(i, o) /\ UNCHANGED loggerVars
    \/ \E i \in 1..Len(inflight) : ThrowUnawaited(i, JsError("boom")) /\ UNCHANGED loggerVars

\* operations in flight when an unhandled rejection makes SubLoggerManager run
\* finalizeAll('unhandledrejection'): the handler runs between two steps of the
\* operations, and its writes settle while they go on
NextRejection ==
    \/ Execute /\ UNCHANGED <<queueVars, loggerVars>>
    \/ \E level \in PerformLevels : PerformLog(level) /\ UNCHANGED <<queueVars, loggerVars>>
    \/ \E own \in BOOLEAN :
            Len(operationStack) < MaxDepth /\ PerformChild(own, <<>>)
                /\ UNCHANGED <<queueVars, loggerVars>>
    \/ \E o \in NestOutcomes : PerformReturn(o, <<>>) /\ UNCHANGED <<queueVars, loggerVars>>
    \/ PerformThrow(JsError("boom"), <<>>) /\ UNCHANGED <<queueVars, loggerVars>>
    \/ InPerform /\ Signal("unhandledrejection") /\ UNCHANGED queueVars
    \/ \E w \in writes : WriteSettles(w) /\ UNCHANGED queueVars

\* instances executed more than once
NextRerun ==
    \/ Execute /\ UNCHANGED <<queueVars, loggerVars>>
    \/ ExecuteAgain /\ UNCHANGED <<queueVars, loggerVars>>
    \/ \E level \in PerformLevels : PerformLog(level) /\ UNCHANGED <<queueVars, loggerVars>>
    \/ PerformFinalizeOwnLogger(<<>>) /\ UNCHANGED <<queueVars, loggerVars>>
    \/ \E own \in BOOLEAN :
            Len(operationStack) < MaxDepth /\ PerformChild(own, <<>>)
                /\ UNCHANGED <<queueVars, loggerVars>>
    \/ \E o \in NestOutcomes : PerformReturn(o, <<>>) /\ UNCHANGED <<queueVars, loggerVars>>
    \/ \E e \in {JsError("boom"), FinalizedError} :
            PerformThrow(e, <<>>) /\ UNCHANGED <<queueVars, loggerVars>>

Spec == Init /\ [][Next]_vars

SpecRerun == Init /\ [][NextRerun]_vars

SpecNest == Init /\ [][NextNest]_vars

SpecRejection == Init /\ [][NextRejection]_vars

SpecInputText == InitInputText /\ [][NextInputText]_vars

SpecSelect == InitSelect /\ [][NextSelect]_vars

SpecInputPassword == InitInputPassword /\ [][NextInputPassword]_vars

SpecConfirm == InitConfirm /\ [][NextConfirm]_vars

SpecMain == InitMain /\ [][NextMain]_vars

SpecOverlap == Init /\ [][NextOverlap]_vars

SpecQueue == InitQueue /\ [][NextQueue]_vars

SpecParse == InitParse /\ [][NextParse]_vars

SpecLogger == InitLogger /\ [][NextLogger]_vars

SpecFilename == InitLogger /\ [][NextFilename]_vars

SpecSignal == InitLogger /\ [][NextSignal]_vars

(***************************************************************************)
(* Claims about execute() and executeChain, checked under Spec.            *)
(***************************************************************************)
Settled == lastSettle.kind # "none"

\* the operations executeChain started (execute() calls made on an empty stack)
TopStarts == SelectSeq(started, LAMBDA x : x.depth = 0)
Starts(id) == Cardinality({i \in 1..Len(started) : started[i].id = id})

\* C1: execute() never rejects: whatever performOperation does (return a success or
\* a failure, throw, use this.logger or finalizeOwnLogger() first), at any depth,
\* execute() resolves to an Outcome.  (Stated for the runs in which every file
\* write succeeds, so that no refutation rests on the file system.)
C1_ExecuteNeverRejects == writeFailures = 0 => lastSettle.kind # "rejected"

\* C1 (what the code does): the state a rejecting execute() is reached from:
\* performOperation finalized its own logger and the outcome entry cannot be logged
C1_RejectsAfterFinalizeOwnLogger ==
    /\ lastSettle.kind = "rejected"
    /\ lastSettle.finalizedOwn
    /\ lastSettle.error = FinalizedError

\* C2: in one execute() performOperation is called exactly once; a returned Outcome
\* is what execute() resolves to, unchanged; a thrown value e makes execute() resolve
\* to {success:false, error: e.message for an Error, String(e) otherwise, details: e}.
\* (Stated for the runs in which every file write succeeds.)
C2_PerformOnceAndVerbatim ==
    (Settled /\ writeFailures = 0) =>
        /\ lastSettle.performCalls = 1
        /\ ~lastSettle.performed.threw =>
                /\ lastSettle.kind = "resolved"
                /\ lastSettle.outcome = lastSettle.performed.outcome
        /\ lastSettle.performed.threw =>
                LET e == lastSettle.performed.error
                IN /\ lastSettle.kind = "resolved"
                   /\ ~lastSettle.outcome.success
                   /\ lastSettle.outcome.error = (IF e.type = "Error" THEN e.message ELSE e.str)
                   /\ lastSettle.outcome.details = e

\* C3: on every exit route of execute() the operation stack is what it was just
\* before the call, and an operation is on the stack, above the operations that were
\* there when it was called, exactly while its execute() runs.
C3_StackRestored ==
    /\ Settled => /\ lastSettle.stackAfter = lastSettle.stackBefore
                  /\ Ids(operationStack) = lastSettle.stackBefore
                  /\ \A i \in 1..Len(operationStack) : operationStack[i].id # lastSettle.op
    /\ \A i \in 1..Len(operationStack) :
            operationStack[i].stackBefore = Ids(SubSeq(operationStack, 1, i - 1))

\* C3 witness: a nested execute() left through the route on which the suspension of
\* the parent's logger threw (performOperation was never reached)
C3_Witness ==
    /\ lastSettle.kind = "resolved"
    /\ lastSettle.performCalls = 0
    /\ Len(lastSettle.stackBefore) = 1
    /\ lastSettle.outcome.details = WriteError

\* C4: a chain whose operations each return the next one as data and whose last
\* returns a terminal value runs each of them exactly once, in chain order, runs
\* nothing after the last one, and completes.
C4_ChainOrder ==
    chain.status = "completed" =>
        LET n == Len(chain.results)
        IN /\ Len(TopStarts) = n
           /\ \A k \in 1..n : Starts(TopStarts[k].id) = 1
           /\ \A k \in 1..(n - 1) : TopStarts[k + 1].id = chain.results[k].outcome.data.id
           /\ TopStarts[n].id = lastSettle.op

\* C4 witness: A returned B, B returned a terminal value, the chain completed
C4_Witness ==
    /\ chain.status = "completed"
    /\ Len(chain.results) = 2
    /\ chain.results[2].outcome = Success(JsNumber)

\* the shape the claim names: an object with a function `execute` and a string `name`
OperationShaped(v) ==
    v.typeof = "object" /\ v.truthy /\ v.execute = "function" /\ v.name = "string"

\* C5: executeChain goes on to a next operation exactly when the Outcome is a success
\* whose data is operation-shaped; after a failure (whatever its details) or any
\* other data nothing more is invoked and executeChain completes without throwing.
C5_ChainContinuesOnlyOnOperation ==
    \A k \in 1..Len(chain.results) :
        chain.results[k].kind = "resolved" =>
            LET o == chain.results[k].outcome
                goesOn == o.success /\ OperationShaped(o.data)
            IN /\ goesOn <=> k < Len(TopStarts)
               /\ ~goesOn => k = Len(chain.results) /\ chain.status = "completed"

\* C5 witness: the chain stopped at a failure whose details hold an operation-shaped
\* object
C5_Witness ==
    /\ chain.status = "completed"
    /\ Len(chain.results) = 2
    /\ chain.results[2].outcome = Failure("business failure", JsDuck)

\* C6: when an operation's execute() throws inside executeChain, at any chain depth,
\* no further operation is invoked, the failure is logged as FATAL and printed, and
\* executeChain rejects with that same error; the failed operation is not run again.
C6_ChainRejects ==
    (lastSettle.kind = "rejected" /\ lastSettle.stackBefore = <<>>) =>
        /\ chain.status \in {"running", "rejected"}
        /\ TopStarts[Len(TopStarts)].id = lastSettle.op
        /\ Starts(lastSettle.op) = 1
        /\ chain.status = "running" => ENABLED ChainCatch
        /\ chain.status = "rejected" =>
                /\ chain.error = lastSettle.error
                /\ fatalLog # <<>>
                /\ \A i \in 1..Len(fatalLog) :
                        /\ fatalLog[i].logged
                        /\ fatalLog[i].printed
                        /\ fatalLog[i].message = "FATAL: Operation crashed"
                        /\ fatalLog[i].error = lastSettle.error

\* C6 witness: the second operation of a chain threw out of execute() and the chain
\* rejected
C6_Witness ==
    /\ chain.status = "rejected"
    /\ Len(TopStarts) = 2
    /\ lastSettle.kind = "rejected"

(***************************************************************************)
(* Claims about the scripted input queue (SpecQueue).                      *)
(***************************************************************************)
Declared == [i \in 1..Len(script) |-> script[i].declared]
WellFormed == \A i \in 1..Len(script) : script[i].declared.type # "none"
Malformed == \E i \in 1..Len(script) : script[i].declared.type = "none"

SameEntry(a, b) == a.type = b.type /\ a.vt = b.vt /\ a.value = b.value
SameEntries(s, t) == Len(s) = Len(t) /\ \A i \in 1..Len(s) : SameEntry(s[i], t[i])

\* construction of a well-formed script gives the declared entries, typed, in order
ParsedAsDeclared(q) ==
    WellFormed /\ q.state = "ok" => SameEntries(q.originalQueue, Declared)
\* a handed-out entry is the head the queue had
HandsOutHead(ln) ==
    ln.result = "value" => ln.before # <<>> /\ SameEntry(ln.entry, Head(ln.before))
\* what is left is always a tail of what was parsed
Fifo(q) ==
    \E k \in 0..Len(q.originalQueue) :
        SameEntries(q.queue, SubSeq(q.originalQueue, k + 1, Len(q.originalQueue)))
IsGetNext(ln) == ln.call \in {"getNext", "getNextSimulatedInput"}

C7_part_005 == ParsedAsDeclared(uiq) /\ HandsOutHead(lastNext) /\ Fifo(uiq)
C7_runtime == ParsedAsDeclared(uiqV1) /\ HandsOutHead(lastNextV1) /\ Fifo(uiqV1)

\* C7: for every well-formed script the constructed queue holds exactly the
\* declared (kind, value) entries in declared order with values of the declared
\* type, and getNext only ever hands out the current head, in both
\* UserInputQueue classes.
C7_QueueYieldsDeclaredInOrder == C7_part_005 /\ C7_runtime

HeadMismatch(ln) ==
    IsGetNext(ln) /\ ln.before # <<>> /\ Head(ln.before).type # ln.type

\* C8: getNext(kind) on a non-empty queue whose head has a different kind
\* always throws, in both UserInputQueue classes.
C8_HeadMismatchThrows ==
    /\ HeadMismatch(lastNext) => lastNext.result = "throw"
    /\ HeadMismatch(lastNextV1) => lastNextV1.result = "throw"

\* C9: getNext(kind) and getNextSimulatedInput(kind) on an existing empty
\* queue return null for every kind, never throw, and leave the queue empty.
C9_EmptyQueueReturnsNull ==
    uiq.state = "ok" /\ IsGetNext(lastNext) /\ lastNext.before = <<>>
        => lastNext.result = "null" /\ uiq.queue = <<>>

\* C9 witness: getNext answered null after every entry had been consumed
C9_Witness ==
    /\ lastNext.call = "getNext"
    /\ lastNext.before = <<>>
    /\ lastNext.result = "null"
    /\ uiq.used # <<>>
    /\ Len(uiq.used) = Len(uiq.originalQueue)

ConstructionFails(q, ln) ==
    Malformed => q.state # "ok" /\ (ln.call # "none" => ln.result = "throw")

\* C10: a script with an item of unrecognised kind, or a confirm item whose
\* value is not yes/no/help, makes construction throw: no queue is created
\* from it, in both UserInputQueue classes.
C10_MalformedFailsAtConstruction ==
    /\ ConstructionFails(uiq, lastNext)
    /\ ConstructionFails(uiqV1, lastNextV1)

\* the item is a quoted text item: input:"..." or input:'...'
Quoted(item) ==
    /\ item.declared.type = "input"
    /\ \E i \in 1..Len(item.text) : item.text[i] \in {DQ, SQ}
QuotedScript ==
    /\ script # <<>>
    /\ \A i \in 1..Len(script) : Quoted(script[i]) \/ script[i].declared.type = "select"
    /\ \E i \in 1..Len(script) : Quoted(script[i])

\* C11: in part_005 a comma inside a quoted value does not split the item and the
\* entry's value is the text between the quotes, quotes removed, every other
\* character preserved: a script of select items and quoted text items parses to
\* one entry per item, each with the declared value.
C11_QuotedTextPreserved ==
    QuotedScript /\ uiq.state = "ok"
        => /\ Len(uiq.originalQueue) = Len(script)
           /\ \A i \in 1..Len(script) : SameEntry(uiq.originalQueue[i], script[i].declared)

\* C11: the two scripts the claim names do parse as declared
C11_NamedExamples ==
    /\ uiq.state = "ok"
    /\ Len(script) = 2
    /\ script[1].text = W_select \o <<":", "1">>
    /\ script[2].text = W_input \o <<":", DQ, "h", " ", "w", DQ>>
    /\ SameEntries(uiq.originalQueue, Declared)

(***************************************************************************)
(* Claims about Logger objects (SpecLogger) and the termination handlers   *)
(* (SpecSignal).                                                           *)
(***************************************************************************)

\* C12: every log call, at any level, on a finalized logger throws and appends
\* nothing.
C12_LogAfterFinalizeThrows ==
    lastLog.call = "log" /\ lastLog.finalizedBefore
        => lastLog.threw /\ ~lastLog.appended

ArtifactsOf(l) == {i \in 1..Len(artifacts) : artifacts[i].logger = l}
WritesOf(l) == {w \in writes : w.file.logger = l}

C13_State ==
    \A l \in 1..Len(loggers) :
        /\ Cardinality(ArtifactsOf(l)) + Cardinality(WritesOf(l)) <= 1
        /\ \A i \in ArtifactsOf(l) : artifacts[i].entries = loggers[l].logs
        /\ \A w \in WritesOf(l) : w.file.entries = loggers[l].logs
        /\ loggers[l].logs = <<>> => ArtifactsOf(l) = {} /\ WritesOf(l) = {}
        /\ ~loggers[l].finalized => ArtifactsOf(l) = {} /\ WritesOf(l) = {}
        /\ loggers[l].finalized /\ loggers[l].logs # <<>>
               => Cardinality(ArtifactsOf(l)) + Cardinality(WritesOf(l)) = 1
C13_Step ==
    \A l \in 1..Len(loggers) :
        loggers[l].finalized => loggers'[l].finalized /\ loggers'[l].logs = loggers[l].logs

C14_SuspendResumeParts ==
    /\ \A md \in metadata :
           \E l \in 1..Len(loggers) : loggers[l].finalized /\ Metadata(loggers[l]) = md
    /\ \A i \in 1..Len(resumes) :
           /\ loggers[resumes[i].logger].operationName = resumes[i].metadata.operationName
           /\ loggers[resumes[i].logger].partNumber = resumes[i].metadata.partNumber + 1
    /\ \A i \in 1..Len(artifacts) :
           /\ artifacts[i].partNumber = loggers[artifacts[i].logger].partNumber
           /\ artifacts[i].operationName = loggers[artifacts[i].logger].operationName
           /\ artifacts[i].continuedFrom = artifacts[i].partNumber - 1
    /\ \A l \in 1..Len(loggers) :
           loggers[l].partNumber
               = 1 + Cardinality({k \in 1..(l - 1) :
                                     loggers[k].operationName = loggers[l].operationName})

\* C14 witness: two suspend/resume cycles of one record, and the artifact of part 3
C14_Witness ==
    /\ Len(resumes) = 2
    /\ \E i \in 1..Len(artifacts) :
           artifacts[i].partNumber = 3 /\ artifacts[i].continuedFrom = 2

\* C17: once the process has exited after a termination signal, every logger is
\* finalized and the entries of every logger are in an artifact.
C17_NoEntriesLostOnTermination ==
    exited =>
        \A l \in 1..Len(loggers) :
            /\ loggers[l].finalized
            /\ loggers[l].logs # <<>>
                   => \E i \in ArtifactsOf(l) : artifacts[i].entries = loggers[l].logs

(***************************************************************************)
(* Claims about the loggers of nested operations, checked under SpecNest.  *)
(***************************************************************************)
\* the record of the execute() call of operation `id`
StartOf(id) == CHOOSE r \in {started[i] : i \in 1..Len(started)} : r.id = id

\* the operation is one that owns a logger: it has no parent, or it overrides
\* shouldUseParentLogger() to return false
OwnsLogger(id) == StartOf(id).depth = 0 \/ StartOf(id).own

\* the nearest ancestor of `id` that owns a logger (the root always does)
NearestOwner(id) ==
    LET anc == StartOf(id).ancestors
        k == CHOOSE i \in 1..Len(anc) :
                 /\ OwnsLogger(anc[i])
                 /\ \A j \in (i + 1)..Len(anc) : ~OwnsLogger(anc[j])
    IN anc[k]

\* the operation whose logger the entries of `id` belong in
Home(id) == IF OwnsLogger(id) THEN id ELSE NearestOwner(id)

\* C20: an operation that borrows logs into the logger of its nearest ancestor that
\* owns a logger, at any depth, and a logger is created only for an operation
\* that has no logger-owning ancestor to borrow from (a root, or one that requires
\* its own logger).
C20_BorrowFromNearestOwner ==
    \A l \in 1..Len(loggers) :
        /\ OwnsLogger(loggers[l].operationName)
        /\ \A i \in 1..Len(loggers[l].logs) :
               Home(loggers[l].logs[i].op) = loggers[l].operationName

\* C20 (what the code does at depth 1): a borrowing child of a logger-owning
\* parent has its entry in the parent's logger
C20_BorrowsFromParent ==
    \E l \in 1..Len(loggers) : \E i \in 1..Len(loggers[l].logs) :
        /\ ~OwnsLogger(loggers[l].logs[i].op)
        /\ loggers[l].operationName = NearestOwner(loggers[l].logs[i].op)

\* every entry of artifact a is older than every entry of artifact b
Precedes(a, b) ==
    \A i \in 1..Len(a.entries), j \in 1..Len(b.entries) :
        a.entries[i].timestamp < b.entries[j].timestamp

\* a root operation has run exactly one child, which requires its own logger and
\* suspended the root's open logger, and has settled
OneOwnChild ==
    /\ operationStack = <<>>
    /\ Len(started) = 2
    /\ started[2].own
    /\ loggers[1].closedBy = "suspend"

FirstPartsLogged ==
    \A l \in 1..Len(loggers) : loggers[l].partNumber = 1 => loggers[l].logs # <<>>

C16_DisjointIntervals ==
    /\ \A a, b \in 1..Len(artifacts) :
           a # b => Precedes(artifacts[a], artifacts[b]) \/ Precedes(artifacts[b], artifacts[a])
    /\ (operationStack = <<>> /\ started # <<>>) =>
           \A l \in 1..Len(loggers) :
               loggers[l].logs # <<>>
                   => \E a \in 1..Len(artifacts) :
                          artifacts[a].logger = l /\ artifacts[a].entries = loggers[l].logs

\* the loggers that suspension metadata md describes
Described(md) == {l \in 1..Len(loggers) : Metadata(loggers[l]) = md}

\* operation `id`, whose parent is `p`, suspended a logger described by md: the
\* logger is the parent's, it was open when suspend() was called, and it was
\* closed before any entry of `id` was logged
SuspendedProperly(id, p, md) ==
    \E s \in Described(md) :
        /\ loggers[s].operationName = p
        /\ loggers[s].closedBy = "suspend"
        /\ \A l \in 1..Len(loggers) : \A i \in 1..Len(loggers[l].logs) :
               loggers[l].logs[i].op = id => loggers[l].logs[i].timestamp >= loggers[s].closedAt

\* C18: an operation suspends its parent's logger only if it requires its own
\* logger and the parent owns an open logger, and does so before its own first
\* entry; the parent's logger is resumed if and only if it was suspended, on every
\* route out of execute(), after the operation's own logger has been finalized and
\* before the operation is popped (so that it is the parent that gets the new part).
C18_SuspendAndResume ==
    /\ \A n \in 1..Len(operationStack) :
           operationStack[n]._parentLoggerSuspended =>
               /\ operationStack[n].own
               /\ n > 1
               /\ SuspendedProperly(operationStack[n].id, operationStack[n - 1].id,
                                    operationStack[n]._suspensionMetadata)
    /\ Settled =>
           /\ lastSettle.suspended <=> lastSettle.resumed # {}
           /\ lastSettle.suspended =>
                  /\ lastSettle.own
                  /\ lastSettle.stackBefore # <<>>
                  /\ SuspendedProperly(lastSettle.op,
                                       lastSettle.stackBefore[Len(lastSettle.stackBefore)],
                                       lastSettle.suspensionMetadata)
                  /\ \E r \in lastSettle.resumed :
                         /\ lastSettle.resumed = {r}
                         /\ loggers[r].operationName = lastSettle.suspensionMetadata.operationName
                         /\ loggers[r].partNumber = lastSettle.suspensionMetadata.partNumber + 1
                         /\ \A l \in 1..Len(loggers) :
                                loggers[l].operationName = lastSettle.op
                                    => loggers[l].finalized /\ loggers[l].closedAt <= loggers[r].startTime
                         /\ operationStack[Len(operationStack)]._logger = r

\* C19 (state): when execute() has settled, by any route, every logger created for
\* the operation (its first logger and every part resumed for it) is finalized.
C19_State ==
    Settled =>
        \A l \in 1..Len(loggers) :
            loggers[l].operationName = lastSettle.op => loggers[l].finalized

\* the operation on top of the stack logs to its parent's logger
Borrowing(st) == st # <<>> /\ st[Len(st)]._usingParentLogger /\ st[Len(st)]._logger = NoLogger

\* C19 (step): no step of a borrowing operation (its start, a log call, a call of
\* finalizeOwnLogger(), its return or throw) finalizes a logger: the borrowed
\* logger is as open after the step as before.
C19_Step ==
    LET byBorrower == \/ Borrowing(operationStack)
                         /\ Len(operationStack') <= Len(operationStack)
                      \/ Len(operationStack') > Len(operationStack)
                         /\ Borrowing(operationStack')
    IN byBorrower =>
           \A l \in 1..Len(loggers) : loggers'[l].finalized = loggers[l].finalized

\* C19: every logger created for an operation is finalized when its execute()
\* settles, and a borrowing operation never finalizes the logger it borrows.
C19_OwnLoggersFinalized == []C19_State /\ [][C19_Step]_vars

\* C19 witness: the root has settled; a child that requires its own logger had its
\* logger resumed as part 2, which is finalized, and a borrowing child left its
\* entries in a logger of the root
C19_Witness ==
    /\ Settled /\ lastSettle.stackAfter = <<>>
    /\ \E l \in 1..Len(loggers) :
           /\ loggers[l].operationName = lastSettle.op
           /\ loggers[l].partNumber = 2
           /\ loggers[l].finalized
    /\ \E l \in 1..Len(loggers) : \E i \in 1..Len(loggers[l].logs) :
           /\ loggers[l].operationName = lastSettle.op
           /\ ~OwnsLogger(loggers[l].logs[i].op)

(***************************************************************************)
(* Claims about the lifecycle of an instance, checked under SpecRerun.     *)
(***************************************************************************)
\* C21: an operation instance goes through its lifecycle to DONE once, and an
\* instance that is DONE is not driven through execute() again with state left
\* over from its first run: every execute() call starts on an instance without a
\* logger reference, a parent-suspended flag or suspension metadata, also when the
\* same instance is executed repeatedly.
C21_NoLeftoverState ==
    \A i \in 1..Len(started) : started[i].fresh

\* C21 (what the code does for an instance that borrows, the case of BenchOp's
\* benchmark operations): the second execute() starts without leftover state
C21_BorrowerRerunFresh ==
    \E i, j \in 1..Len(started) :
        /\ i < j /\ started[i].id = started[j].id
        /\ started[j].depth > 0 /\ ~started[j].own
        /\ started[j].fresh

(***************************************************************************)
(* Claims about log calls, checked under SpecLogger.                       *)
(***************************************************************************)
\* a log call on an open logger appends one entry, stamped with the time of the
\* call and carrying the level of the call, and prints one console line
C22_Step ==
    (lastLog'.call = "log" /\ ~lastLog'.finalizedBefore) =>
        LET l == lastLog'.logger
            n == Len(loggers[l].logs)
        IN /\ Len(loggers'[l].logs) = n + 1
           /\ SubSeq(loggers'[l].logs, 1, n) = loggers[l].logs
           /\ loggers'[l].logs[n + 1].timestamp = clock
           /\ loggers'[l].logs[n + 1].level = lastLog'.level
           /\ consoleLines' = consoleLines + 1

\* C22: every log call on an open logger, at every level including debug,
\* appends exactly one timestamped entry to the logger's buffer and emits
\* exactly one line on the console.
C22_EveryLogCallRecorded == [][C22_Step]_vars

(***************************************************************************)
(* C23  A scripted-input kind mismatch raised by getNext while an          *)
(* operation runs reaches the code that called execute() as an exception:  *)
(* execute() rejects, it does not resolve to a failure Outcome.            *)
(***************************************************************************)
\* the run read an entry of another kind from the queue
KindMismatch == ui.op # "none" /\ \E i \in 1..Len(ui.tr) : ui.tr[i].verdict = "mismatch"

C23_MismatchIsThrown == KindMismatch => lastSettle.kind = "rejected"

(***************************************************************************)
(* C26  InputTextOperation with validation against a script of text        *)
(* entries: the entries are read one at a time, in order, up to the first  *)
(* one that passes validation, which is returned as {success:true, data};  *)
(* every rejected value costs exactly one entry; no failure Outcome is     *)
(* returned; and when no entry passes, the queue is used up and the        *)
(* operation returns as soon as the live prompt is cancelled.              *)
(***************************************************************************)
\* the validation rules, as the InputValidation options state them
Passes(value, v) ==
    /\ v.required => value # <<>>
    /\ v.minLength # 0 => Len(value) >= v.minLength
    /\ v.maxLength # 0 => Len(value) <= v.maxLength
    /\ v.numeric => value # <<>> /\ \A i \in 1..Len(value) : DigitValue(value[i]) >= 0

TextRun ==
    /\ ui.op = "InputText"
    /\ ui.cfg.validation.present
    /\ \A i \in 1..Len(ui.before) : ui.before[i].type = "input"

\* the first k reads are the first k entries of the queue, in order
ReadsQueuePrefix(k) ==
    /\ Len(ui.tr) >= k
    /\ \A i \in 1..k : /\ ui.tr[i].from = "queue"
                       /\ ui.tr[i].entered = JsString(ui.before[i].value)
    /\ \A i \in (k + 1)..Len(ui.tr) : ui.tr[i].from = "live"
    /\ ui.after = SubSeq(ui.before, k + 1, Len(ui.before))

ValidEntries == {i \in 1..Len(ui.before) : Passes(ui.before[i].value, ui.cfg.validation)}
FirstValid == CHOOSE i \in ValidEntries : \A j \in ValidEntries : i <= j

C26_RetryUntilValid ==
    TextRun =>
        IF ValidEntries # {}
        THEN /\ ui.kind = "returned"
             /\ ui.out = Success(JsString(ui.before[FirstValid].value))
             /\ ReadsQueuePrefix(FirstValid)
             /\ Len(ui.tr) = FirstValid
        ELSE /\ ReadsQueuePrefix(Len(ui.before))
             /\ ui.kind = "returned" => ui.out.success
             /\ ui.typed # <<>> /\ IsNull(ui.typed[1]) => ui.kind = "returned"

(***************************************************************************)
(* C27  InputPasswordOperation with confirmation against a script of text  *)
(* entries: read in order, a too-short password costs one entry, a         *)
(* password with a differing confirmation costs two, and the first         *)
(* password of at least 6 characters whose next entry is identical is      *)
(* returned; no entry is read twice or skipped.                            *)
(***************************************************************************)
PasswordRun ==
    /\ ui.op = "InputPassword"
    /\ ui.cfg.confirmPassword
    /\ \A i \in 1..Len(ui.before) : ui.before[i].type = "input"

\* reading q from entry i on: the pair that is accepted, or none before q ends
RECURSIVE AcceptedPair(_, _)
AcceptedPair(q, i) ==
    IF i > Len(q) THEN [found |-> FALSE, used |-> Len(q), password |-> <<>>]
    ELSE IF Len(q[i].value) < 6 THEN AcceptedPair(q, i + 1)
    ELSE IF i = Len(q) THEN [found |-> FALSE, used |-> Len(q), password |-> <<>>]
    ELSE IF q[i + 1].value = q[i].value
    THEN [found |-> TRUE, used |-> i + 1, password |-> q[i].value]
    ELSE AcceptedPair(q, i + 2)

C27_WitnessShort ==
    /\ PasswordRun
    /\ ui.kind = "returned" /\ ui.out.success /\ ~IsNull(ui.out.data)
    /\ ui.tr[1].verdict = "short"
    /\ Len(ui.before) - Len(ui.after) = 3

(***************************************************************************)
(* C28  ConfirmOp against a script of confirm entries.  With               *)
(* moreInfo: a 'help' answer runs the info display, which takes exactly    *)
(* the next entry as its acknowledgement, and the question is asked again; *)
(* the first 'yes' then read as an answer gives success with true, the     *)
(* first 'no' success with false.  Without moreInfo a 'help' answer gives  *)
(* false and nothing more is read.                                         *)
(***************************************************************************)
ConfirmRun ==
    /\ ui.op = "Confirm"
    /\ \A i \in 1..Len(ui.before) : ui.before[i].type = "confirm"

\* reading q as answers from entry i on: the answer given, or none before q ends
RECURSIVE Answered(_, _, _)
Answered(q, i, moreInfo) ==
    IF i > Len(q) THEN [found |-> FALSE, used |-> Len(q), answer |-> FALSE]
    ELSE IF q[i].value = W_help /\ moreInfo THEN Answered(q, i + 2, moreInfo)
    ELSE [found |-> TRUE, used |-> i, answer |-> q[i].value = W_yes]

SelectRun ==
    /\ ui.op = "Select"
    /\ ui.before # <<>>
    /\ ui.before[1].type = "select"

C29_SelectByIndex ==
    SelectRun =>
        LET i == ui.before[1].value
            options == ui.cfg.options
        IN /\ ui.kind = "returned"
           /\ ui.out = IF 0 <= i /\ i < Len(options)
                       THEN Success(JsString(options[i + 1]))
                       ELSE Success(JsNull)
           /\ ui.after = Tail(ui.before)
           /\ ui.left = ui.typed

\* an index past the options: success with null, one entry taken
C29_Witness ==
    /\ SelectRun
    /\ ui.before[1].value >= Len(ui.cfg.options)
    /\ ui.out = Success(JsNull)
    /\ Len(ui.before) >= 2 /\ Len(ui.after) = Len(ui.before) - 1

\* a negative index
C29_WitnessNegative ==
    /\ SelectRun
    /\ ui.before[1].value < 0
    /\ ui.out = Success(JsNull)

\* an index within the options
C29_WitnessInRange ==
    /\ SelectRun
    /\ ui.before[1].value = 0
    /\ ui.out = Success(JsString(ui.cfg.options[1]))


(***************************************************************************)
(* Claims about main() and the end of the process, checked under SpecMain. *)
(***************************************************************************)
ProcessEnded == main.pc = "exited"

\* C24: the process exit code is 0 when help is shown or a command or menu session
\* completes, and 1 exactly when an uncaught error reached the top level of main:
\* every end of the process has code 0 or 1, an exception that escaped OpStack.run
\* leads to code 1, and a chain whose operations only returned failure Outcomes
\* ends with code 0.
C24_ExitCodes ==
    ProcessEnded =>
        /\ main.exitCode \in {0, 1}
        /\ main.exitCode = 1 <=> main.error # NoError
        /\ chain.status = "rejected" => main.exitCode = 1
        /\ chain.status = "completed" => main.exitCode = 0

\* C30: an operation that ended the process from inside its performOp has every
\* entry it buffered in its own logger written to an artifact.
C30_ExitingOperationLogsWritten ==
    (ProcessEnded /\ main.by # 0) =>
        LET l == Top._logger
        IN (l # NoLogger /\ loggers[l].logs # <<>>)
               => \E i \in ArtifactsOf(l) : artifacts[i].entries = loggers[l].logs


(***************************************************************************)
(* Claims about execute() calls that overlap, checked under SpecOverlap.   *)
(***************************************************************************)
\* C25: exactly one operation is current: when performOperation of an operation is
\* called the operation is the top of the stack, the BaseOperation.parent it saw is
\* the operation that started it, and the entry its cleanup removed is itself, also
\* when its execute() was started before that of a sibling had settled.
C25_OneCurrentOperation ==
    \A i \in 1..Len(inflight) :
        LET c == inflight[i]
        IN /\ c.parentSeen = c.by
           /\ c.phase = "perform" => c.topAtPerform = c.id
           /\ (c.phase = "settled" /\ c.topAtPerform # 0) => c.topAtPerform = c.id
           /\ c.phase = "settled" => c.removed = c.id

(***************************************************************************)
(* Claims about the main menu loop, checked under SpecMain.                *)
(***************************************************************************)
\* main() is inside  while (true) { ... }
InMenuLoop == main.pc \in {"loop", "menu", "chain"}

\* the menu operation resolved with { success: true } and no operation
MenuChoseExit ==
    /\ MenuSettled
    /\ lastSettle.kind = "resolved"
    /\ lastSettle.outcome.success
    /\ ~lastSettle.outcome.data.truthy

\* the step leaves the while loop
LeavesMenuLoop == InMenuLoop /\ main'.pc \notin {"loop", "menu", "chain"}

\* while a menu is shown no chain is running, and the await of a chain ends only with
\* the chain: completed with an empty stack, or rejected
OneChainAtATime ==
    /\ main.pc = "menu" => chain.status = "idle"
    /\ (main.pc = "chain" /\ main'.pc = "loop")
           => chain.status = "completed" /\ operationStack = <<>>

\* a failed menu operation is logged and the loop continues
MenuFailureContinues ==
    (MenuSettled /\ lastSettle.kind = "resolved" /\ ~lastSettle.outcome.success)
        => /\ main'.pc = "loop"
           /\ Len(fatalLog') = Len(fatalLog) + 1
           /\ fatalLog'[Len(fatalLog')].message = "FATAL: Menu Op failed"

\* a chain that threw is not run again: the exception leaves main()
ThrownChainNotRestarted ==
    (main.pc = "chain" /\ chain.status = "rejected") => main'.pc = "catch"

\* C31: the main menu loop runs one chain at a time, shows the menu again after a
\* failed menu operation, and is left only when the menu resolved with success and no
\* operation or when the chain threw; a chain that threw is not restarted.
C31_MenuLoop ==
    [][/\ OneChainAtATime
       /\ MenuFailureContinues
       /\ ThrownChainNotRestarted
       /\ LeavesMenuLoop => \/ MenuChoseExit
                            \/ main.pc = "chain" /\ chain.status = "rejected"]_vars

\* the loop was left by an operation of the chain that ended the process
C31_LeftByOperation == ProcessEnded /\ main.by # 0 /\ chain.status = "running"

(***************************************************************************)
(* Claims about generateLogFilename, checked under SpecFilename.           *)
(***************************************************************************)
\* the calls made so far for the same timestamp, level and description as call i
SameEntryBefore(i) ==
    {j \in 1..(i - 1) :
        /\ formatter.names[j].timestampBase = formatter.names[i].timestampBase
        /\ formatter.names[j].level = formatter.names[i].level
        /\ formatter.names[j].description = formatter.names[i].description}

\* C32: generateLogFilename returns no name twice for entries with the same timestamp,
\* level and description: the sequence number of a millisecond goes up by one on every
\* call for that millisecond, also after the counter map has been trimmed.
C32_SequenceNeverRepeats ==
    \A i \in 1..Len(formatter.names) :
        formatter.names[i].counter = Cardinality(SameEntryBefore(i)) + 1

\* the counter map has been trimmed and a millisecond seen before the trim is used again
C32_ReusedAfterTrim ==
    /\ Len(formatter.names) > TrimAbove + 1
    /\ \E i, j \in 1..Len(formatter.names) : i < j /\ formatter.names[i] = formatter.names[j]

(***************************************************************************)
(* Claims about the entries of a queue over its life, checked under        *)
(* SpecQueue.                                                              *)
(***************************************************************************)
\* the last call was a getNext (direct or through getNextSimulatedInput) that found
\* the queue of part_005 non-empty
TookFromQueue ==
    /\ impl = "part_005"
    /\ lastNext.call \in {"getNext", "getNextSimulatedInput"}
    /\ lastNext.before # <<>>

\* C33: the entries handed out, in consumption order, followed by the entries still
\* queued are the list parsed at construction; a getNext on a non-empty queue moves
\* exactly the head entry from queued to used, also when it throws for a mismatch.
C33_UsedThenQueuedIsOriginal ==
    (impl = "part_005" /\ uiq.state = "ok") =>
        /\ uiq.used \o uiq.queue = uiq.originalQueue
        /\ uiq.interactionCount = Len(uiq.used)
        /\ TookFromQueue =>
              /\ uiq.queue = Tail(lastNext.before)
              /\ uiq.used # <<>>
              /\ uiq.used[Len(uiq.used)] = Head(lastNext.before)

\* a getNext threw for a mismatch after an earlier entry had been handed out
C33_Witness ==
    /\ TookFromQueue
    /\ lastNext.result = "throw"
    /\ Len(uiq.used) = 2
    /\ Len(uiq.queue) = Len(lastNext.before) - 1

(***************************************************************************)
(* Claims about parseInputString of part_005, checked under SpecParse.     *)
(***************************************************************************)
\* C34: for every script the constructor accepts, the parsed queue has exactly one
\* entry per top-level comma-separated item, in item order: no item is dropped
\* without an error, an item without a colon and a select item whose value is not an
\* integer included.
C34_OneEntryPerItem ==
    (impl = "part_005" /\ uiq.state = "ok" /\ lastNext.call = "new") =>
        /\ Len(uiq.originalQueue) = Len(script)
        /\ \A i \in 1..Len(script) :
              script[i].declared.type # "none"
                  => uiq.originalQueue[i].type = script[i].declared.type

\* a script with an item that has no colon was accepted and the item is not in the queue
C34_DroppedSilently ==
    /\ uiq.state = "ok"
    /\ lastNext.call = "new"
    /\ \E i \in 1..Len(script) : script[i] \in SilentItems
    /\ Len(uiq.originalQueue) < Len(script)

(***************************************************************************)
(* Claims about the stack and the loggers along a chain, checked under     *)
(* Spec.                                                                   *)
(***************************************************************************)
\* the record of the execute() call of the k-th operation of the chain
ChainedStart(k) ==
    CHOOSE s \in {started[i] : i \in 1..Len(started)} : s.id = chain.invoked[k]

LoggersOf(id) == {l \in 1..Len(loggers) : loggers[l].operationName = id}

\* C35: with executeChain started on an empty stack, every operation of the chain
\* starts on an empty stack, after the execute() of the one before it has settled with
\* its loggers finalized; the stack does not grow with the chain, and every chained
\* operation has a logger of its own.
C35_ChainStartsOnEmptyStack ==
    chain.status # "idle" =>
        /\ \A k \in 1..Len(chain.invoked) :
              /\ ChainedStart(k).depth = 0
              /\ ChainedStart(k).ancestors = <<>>
              /\ \E l \in LoggersOf(chain.invoked[k]) : loggers[l].partNumber = 1
        /\ \A k \in 1..(Len(chain.invoked) - 1) :
              \A l \in LoggersOf(chain.invoked[k]) : loggers[l].finalized
        /\ \A j, k \in 1..Len(chain.invoked) : j # k => chain.invoked[j] # chain.invoked[k]
        /\ operationStack # <<>> =>
              /\ operationStack[1].id = chain.invoked[Len(chain.invoked)]
              /\ ~operationStack[1]._usingParentLogger
              /\ operationStack[1]._logger \in LoggersOf(operationStack[1].id) \cup {NoLogger}
        /\ (chain.status = "running" /\ Len(chain.results) < Len(chain.invoked)
               /\ lastSettle.op = chain.invoked[Len(chain.invoked)])
              => operationStack = <<>>

\* the third operation of a chain is inside performOperation, alone on the stack
C35_Witness ==
    /\ chain.status = "running"
    /\ Len(chain.invoked) = 3
    /\ Len(operationStack) = 1
    /\ operationStack[1].id = chain.invoked[3]
    /\ \A l \in LoggersOf(chain.invoked[2]) : loggers[l].finalized

(***************************************************************************)
(* Claims about the registry of open loggers, checked under SpecNest.      *)
(***************************************************************************)
OpenLoggers == {l \in 1..Len(loggers) : ~loggers[l].finalized}

\* C36: the active-logger registry is the set of loggers constructed and not yet
\* finalized, and once a top-level execute() has settled the registry holds no logger:
\* none created during the execution is left open, whatever the nesting of children
\* that borrow the parent's logger and children with a logger of their own.
C36_NoOpenLoggerLeft ==
    /\ activeLoggers = OpenLoggers
    /\ operationStack = <<>> => activeLoggers = {}
    /\ \A l \in OpenLoggers :
          \E i \in 1..Len(operationStack) : operationStack[i]._logger = l

\* a top-level execute() has settled after a child with its own logger ran under a
\* parent that was suspended and resumed, and after a borrowing child ran
C36_Witness ==
    /\ operationStack = <<>>
    /\ lastSettle.kind = "resolved"
    /\ \E l \in 1..Len(loggers) : loggers[l].partNumber = 2
    /\ \E i \in 1..Len(started) : started[i].depth > 0 /\ ~started[i].own
    /\ Len(loggers) >= 3
    /\ activeLoggers = {}

(***************************************************************************)
(* Claims about the parts of a suspended and resumed logger, checked under *)
(* SpecNest.                                                               *)
(***************************************************************************)
\* the loggers (parts) of one operation
PartsOf(name) == {l \in 1..Len(loggers) : loggers[l].operationName = name}

\* frame i of the stack runs with a logger of its own
HasOwnLogger(i) ==
    /\ operationStack[i]._logger # NoLogger
    /\ ~operationStack[i]._usingParentLogger

\* C37: at most one logger part of an operation is open at any instant: part N+1 exists
\* only once part N has been finalized, and the _logger reference of the parent is null
\* for as long as a child that has a logger of its own is running.
C37_OnePartOpen ==
    /\ \A l, k \in OpenLoggers :
          loggers[l].operationName = loggers[k].operationName => l = k
    /\ \A l \in 1..Len(loggers) :
          loggers[l].partNumber > 1 =>
              \E k \in PartsOf(loggers[l].operationName) :
                  /\ loggers[k].partNumber = loggers[l].partNumber - 1
                  /\ loggers[k].finalized
                  /\ loggers[k].closedAt <= loggers[l].startTime
    /\ \A i \in 2..Len(operationStack) :
          HasOwnLogger(i) => operationStack[i - 1]._logger = NoLogger

\* a child with its own logger is running under a parent that is already at part 2 of
\* its log: part 3 will follow
C37_Witness ==
    /\ Len(operationStack) = 2
    /\ HasOwnLogger(2)
    /\ operationStack[2]._parentLoggerSuspended
    /\ operationStack[2]._suspensionMetadata.partNumber = 2
    /\ operationStack[1]._logger = NoLogger
    /\ Cardinality(PartsOf(operationStack[1].id)) = 2

(***************************************************************************)
(* Claims about operations that go on after an emergency finalization,     *)
(* checked under SpecRejection.                                            *)
(***************************************************************************)
\* finalizeAll('unhandledrejection') has run and the process goes on
EmergencyFinalized ==
    /\ handlers # <<>>
    /\ ~exited

\* C38: after finalizeAll('unhandledrejection'), which does not end the process, the
\* operations in flight still complete: a later log call does not make execute()
\* throw, execute() resolves to an Outcome and the stack is unwound.
C38_InFlightCompletes ==
    (EmergencyFinalized /\ lastSettle.kind # "none") =>
        /\ lastSettle.kind = "resolved"
        /\ lastSettle.stackAfter = lastSettle.stackBefore

\* the execute() of an operation that was in flight at the emergency finalization
\* rejected with the error of a log call on its finalized logger
C38_RejectedAfterEmergency ==
    /\ EmergencyFinalized
    /\ lastSettle.kind = "rejected"
    /\ lastSettle.error = FinalizedError
    /\ lastSettle._logger # NoLogger
    /\ loggers[lastSettle._logger].closedBy # ""
    /\ ~lastSettle.finalizedOwn

====
